---- MODULE Spec2Model ----
(***************************************************************************)
(* A model of the suggestion cycle engine of tgent: the scheduler's life   *)
(* cycle (start, the loop's timed wait, wake, stop) and its single-flight  *)
(* run_once(), generate_suggestions_cycle() with its per-thread steps, the *)
(* retry loop of the backend client, and the dashboard handlers that share *)
(* the store with the cycle (send, decline, settings save, chat sync and   *)
(* selection).                                                             *)
(*                                                                         *)
(* Every `await` of the code is a point where the asyncio event loop may   *)
(* run another task, so every action below is the code between two         *)
(* consecutive awaits of one task or handler.  All tasks share one SQLite  *)
(* connection, so a statement executed by one task is seen by the others   *)
(* at once; a statement is one atomic step.                                *)
(*                                                                         *)
(* Spec is the whole system.  TLC checks the properties under              *)
(* sub-specifications of it (SpecLock, SpecQuota, ...): each has the same  *)
(* initial states and takes a part of Spec's steps, so every behaviour of  *)
(* a sub-specification is a behaviour of Spec.  SpecBackend alone starts   *)
(* from the application constructed with any configured max_retries; the   *)
(* specifications named ...Fair add the fairness of the event loop.        *)
(***************************************************************************)
EXTENDS Integers, Sequences, FiniteSets, TLC

(***************************************************************************)
(* Bounds of the model.                                                    *)
(***************************************************************************)
NumManual == 1         \* run-now tasks that may exist at the same time
MaxMsgs == 2           \* messages in the connector, all threads together
MaxSuggestions == 2    \* rows of the suggestions table
MaxTime == 1           \* clock ticks (one tick = one minute)
MaxWakes == 2          \* wake() calls counted within one wait of the loop
MaxRetries == 5        \* the largest configured max_retries
MaxGap == 49           \* messages between two entries of a stored source list
MaxRejections == 2     \* rejections of the token parameter name counted per client

Threads == {1, 2}                \* chat ids known to the connector
RawTexts == {"hi", " "}          \* message texts: a text, and blank (media)

None == -1                       \* NULL / None of an integer column

LoopTask == 0
ManualTasks == 1..NumManual
Tasks == {LoopTask} \cup ManualTasks

VARIABLES
    authorized,     \* TelegramClientManager._authorized
    enabled,        \* OpenAIClient.enabled
    settings,       \* the settings row (id = 1)
    chats,          \* the chats table: thread -> row
    suggestions,    \* the suggestions table, in id order (id = index)
    inbox,          \* the connector's messages per thread, oldest first
    now,            \* the clock, in minutes
    lock_owner,     \* SuggestionScheduler._lock: the holder, or None
    lock_waiters,   \* ... and its FIFO of waiting tasks
    pc,             \* where each run_once() task stands
    cyc,            \* the locals of each task's cycle
    calls,          \* per task: the operations its current cycle has made
    outcome,        \* per task: how each thread of its current cycle ended
    disp,           \* the send handler that takes the next step
    other,          \* a second send handler in progress, suspended at its await
    sched,          \* SuggestionScheduler: _task, _stop, _wakeup, a stop() in progress
    req             \* OpenAIClient: its max_retries and the request_json call in progress

vars == <<authorized, enabled, settings, chats, suggestions, inbox, now,
          lock_owner, lock_waiters, pc, cyc, calls, outcome, disp, other, sched, req>>

clients == <<authorized, enabled>>
lock == <<lock_owner, lock_waiters>>
tasks == <<pc, cyc, calls, outcome>>

(***************************************************************************)
(* Helpers.                                                                *)
(***************************************************************************)
SetMax(S) == CHOOSE x \in S : \A y \in S : y <= x

\* db.py init_db: the singleton settings row.
DefaultSettings == [k_messages |-> 20, max_suggestions_per_chat |-> 1, cooldown_minutes |-> 0]

\* Settings rows the operator saves: each differs from the defaults in one field.
MoreQuota == [DefaultSettings EXCEPT !.max_suggestions_per_chat = 2]
WithCooldown == [DefaultSettings EXCEPT !.cooldown_minutes = 1]
ShortWindow == [DefaultSettings EXCEPT !.k_messages = 1]
SettingsValues == {DefaultSettings, MoreQuota, WithCooldown, ShortWindow}

\* str.strip() on the modelled texts.
MessageText(raw) == IF raw = " " THEN "" ELSE raw

\* The connector's answer: the last `limit` messages, oldest first.
LastMessages(c, limit) ==
    LET n == Len(inbox[c]) IN
    IF n <= limit THEN inbox[c] ELSE SubSeq(inbox[c], n - limit + 1, n)

\* A source list that keeps the messages without text.
SourceUnfiltered(messages) ==
    [i \in 1..Len(messages) |->
        [id |-> messages[i].id, from_me |-> messages[i].from_me,
         text |-> IF messages[i].text = " " THEN "" ELSE messages[i].text]]

\* "Keep only text messages": SourceMessage records of the non-blank ones.
HasText(m) == MessageText(m.text) # ""
SourceOf(messages) ==
    LET kept == SelectSeq(messages, HasText) IN
    [i \in 1..Len(kept) |->
        [id |-> kept[i].id, from_me |-> kept[i].from_me, text |-> MessageText(kept[i].text)]]

\* latest_id = max((m.id for m in source), default=0)
LatestId(source) == SetMax({source[i].id : i \in 1..Len(source)} \cup {0})

\* A count over the rows of every status.
CountAnyStatus(c) ==
    Cardinality({i \in 1..Len(suggestions) : suggestions[i].chat = c})

\* SELECT COUNT(*) ... WHERE chat_id = ? AND status = 'pending'
CountPending(c) ==
    Cardinality({i \in 1..Len(suggestions) :
        suggestions[i].chat = c /\ suggestions[i].status = "pending"})

\* The same query over the pending rows only.
LatestPendingCreatedAt(c) ==
    LET mine == {i \in 1..Len(suggestions) :
                    suggestions[i].chat = c /\ suggestions[i].status = "pending"} IN
    IF mine = {} THEN None ELSE SetMax({suggestions[i].created : i \in mine})

\* SELECT created_at ... WHERE chat_id = ? ORDER BY created_at DESC LIMIT 1
LatestCreatedAt(c) ==
    LET mine == {i \in 1..Len(suggestions) : suggestions[i].chat = c} IN
    IF mine = {} THEN None ELSE SetMax({suggestions[i].created : i \in mine})

\* get_selected_chats: the selected rows in title order (titles sort as ids).
RECURSIVE SelectedFrom(_)
SelectedFrom(c) ==
    IF c > SetMax(Threads) THEN <<>>
    ELSE IF c \in Threads /\ chats[c].known /\ chats[c].is_selected
         THEN <<[id |-> c, last_seen_message_id |-> chats[c].last_seen_message_id]>>
              \o SelectedFrom(c + 1)
         ELSE SelectedFrom(c + 1)
SelectedChats == SelectedFrom(1)

NoLocals == [settings |-> DefaultSettings, chats |-> <<>>, idx |-> 0,
             source |-> <<>>, latest_id |-> 0, err |-> ""]

\* Where a task stands once its run_once() has returned: the loop goes on
\* to its next iteration, the settings read of _maybe_wait.
IdlePc(t) == IF t = LoopTask THEN "wait_settings" ELSE "idle"

\* SuggestionScheduler.__init__: no loop task, both events clear.  `at` is
\* where the loop task stood when it was cancelled.  `first`, `wakes`,
\* `erred` and `stopped` are history: the loop has not yet ended a wait
\* since start(); the wake() calls made during the current wait; the loop
\* has caught an exception of its settings read; a stop() has completed.
NoScheduler == [task |-> FALSE, stop |-> FALSE, wakeup |-> FALSE, stopping |-> FALSE,
                at |-> "", first |-> FALSE, wakes |-> 0, erred |-> FALSE,
                stopped |-> FALSE]

\* Settings.openai_max_retries
DefaultMaxRetries == 2

\* OpenAIClient.__init__: self.max_retries = max(0, int(max_retries))
ClampRetries(n) == IF n > 0 THEN n ELSE 0

\* The values openai_max_retries is configured with.
RetryConfigs == -1..MaxRetries

\* No request_json call in progress.  `attempt` and `last_err` are the
\* locals of request_json, `error` the exception it raised and `result` the
\* value it returned; `sent`, `errs` and `delays` are history: the
\* _request_once calls made, the error of each failed attempt and the
\* length of each asyncio.sleep, in seconds.
\* `kwargs` are the request parameters of _request_once that depend on the
\* model: the name of the token-budget parameter and whether a temperature
\* is sent; `http` and `resent` count the chat.completions.create calls of
\* the whole call and the re-sends of the current attempt; `reply` holds
\* the completion the current attempt has received, if any.
NoRequest == [pc |-> "idle", attempt |-> 0, last_err |-> "", error |-> "",
              result |-> "", sent |-> 0, errs |-> <<>>, delays |-> <<>>,
              kwargs |-> [token |-> "", temperature |-> FALSE],
              http |-> 0, resent |-> 0, reply |-> <<>>]

\* Settings.openai_model = "gpt-4o-mini": not of the gpt-5 family, and served
\* by a backend that takes max_tokens and a temperature.
DefaultGpt5 == FALSE
DefaultBackend == [token |-> "max_tokens", temperature |-> TRUE]

\* The backends a model may be served by: the token-budget parameter they
\* take, and whether they take a temperature other than the default.
Backends == [token : {"max_tokens", "max_completion_tokens"}, temperature : BOOLEAN]

NoDisp == [pc |-> "idle", sid |-> 0, msg_id |-> 0, err |-> "", reply_to |-> None]

\* An empty chats table.
NoChats ==
    [c \in Threads |-> [known |-> FALSE, is_selected |-> FALSE, last_seen_message_id |-> None]]

\* The application as lifespan constructs it on a database holding the chats
\* chs and the suggestions rows.
Opened(chs, rows, client) ==
    /\ authorized \in BOOLEAN
    /\ enabled \in BOOLEAN
    /\ settings = DefaultSettings
    /\ chats = chs
    /\ suggestions = rows
    /\ req = client
    /\ inbox = [c \in Threads |-> <<>>]
    /\ now = 0
    /\ lock_owner = None
    /\ lock_waiters = <<>>
    /\ pc = [t \in Tasks |-> IF t = LoopTask THEN "none" ELSE "idle"]
    /\ cyc = [t \in Tasks |-> NoLocals]
    /\ calls = [t \in Tasks |-> {}]
    /\ outcome = [t \in Tasks |-> <<>>]
    /\ disp = NoDisp
    /\ other = NoDisp
    /\ sched = NoScheduler

\* OpenAIClient.__init__.  `name_rejected` is history: the requests of
\* this client that the backend has rejected for the name of the
\* token-budget parameter, counted up to MaxRejections.
Client(max_retries, gpt5, backend) ==
    [max_retries |-> ClampRetries(max_retries), gpt5 |-> gpt5,
     token_param |-> "", backend |-> backend, call |-> NoRequest,
     name_rejected |-> 0]

\* The application on an empty database.
ConstructedFor(max_retries, gpt5, backend) ==
    Opened(NoChats, <<>>, Client(max_retries, gpt5, backend))

Constructed(max_retries) == ConstructedFor(max_retries, DefaultGpt5, DefaultBackend)

Init == Constructed(DefaultMaxRetries)

\* The same with any configured openai_max_retries.
InitBackend == \E n \in RetryConfigs : Constructed(n)

(***************************************************************************)
(* SuggestionScheduler.run_once: the single-flight lock.  Taking a free    *)
(* lock does not suspend the task, and the cycle's gate is evaluated       *)
(* before its first await, so entering the cycle is one step.  Every way   *)
(* out of the cycle passes "release", the end of `async with self._lock`.  *)
(***************************************************************************)
\* A lock that admits every caller.
LockNeverHeld == TRUE

\* asyncio.Lock.acquire returns at once only if the lock is free and nobody
\* waits for it.
LockFree == lock_owner = None /\ lock_waiters = <<>>

\* A gate that looks at the connector only.
GateConnectorOnly == authorized

\* The precondition gate: connector authorized and backend configured.
GateOpen == authorized /\ enabled

\* A run_once() that takes the lock and returns without a cycle of its own.
EnterCached(t) ==
    /\ lock_owner' = t
    /\ pc' = [pc EXCEPT ![t] = "release"]

\* The cycle up to its first await, with the lock held: past the gate to
\* the settings read, or straight back out of the cycle.
EnterCycle(t) ==
    /\ lock_owner' = t
    /\ pc' = [pc EXCEPT ![t] = IF GateOpen THEN "settings" ELSE "release"]

\* async with self._lock: take the lock, or queue up behind its holder.
Acquire(t) ==
    IF LockFree
    THEN /\ EnterCycle(t)
         /\ UNCHANGED lock_waiters
    ELSE /\ lock_waiters' = Append(lock_waiters, t)
         /\ pc' = [pc EXCEPT ![t] = "waiting"]
         /\ UNCHANGED lock_owner

\* wake(): self._wakeup.set().
Woken ==
    [sched EXCEPT !.wakeup = TRUE,
                  !.wakes = IF pc[LoopTask] = "sleep" /\ @ < MaxWakes THEN @ + 1 ELSE @]

\* POST /run-now: asyncio.create_task(scheduler.run_once()).
RunNow(t) ==
    /\ t \in ManualTasks
    /\ pc[t] = "idle"
    /\ Acquire(t)
    /\ UNCHANGED <<other, clients, sched, req, settings, chats, suggestions, inbox, now, cyc, calls, outcome, disp>>

\* _run_loop: the wait of _maybe_wait ends (timeout or wake) and the loop
\* calls run_once().
LoopWake ==
    /\ pc[LoopTask] = "sleep"
    /\ IF sched.stop
       THEN /\ pc' = [pc EXCEPT ![LoopTask] = "done"]
            /\ UNCHANGED lock
       ELSE Acquire(LoopTask)
    /\ sched' = [sched EXCEPT !.first = FALSE, !.wakes = 0]
    /\ UNCHANGED <<other, clients, req, settings, chats, suggestions, inbox, now, cyc, calls, outcome, disp>>

\* The first waiter, woken by a release, takes the lock.
Granted(t) ==
    /\ pc[t] = "waiting"
    /\ lock_owner = None
    /\ lock_waiters # <<>>
    /\ Head(lock_waiters) = t
    /\ EnterCycle(t)
    /\ lock_waiters' = Tail(lock_waiters)
    /\ UNCHANGED <<other, clients, sched, req, settings, chats, suggestions, inbox, now, cyc, calls, outcome, disp>>

\* A run_once() that returns with the lock still held.
ReleaseKeepsLock(t) ==
    /\ pc[t] = "release"
    /\ pc' = [pc EXCEPT ![t] = IdlePc(t)]
    /\ cyc' = [cyc EXCEPT ![t] = NoLocals]
    /\ calls' = [calls EXCEPT ![t] = {}]
    /\ outcome' = [outcome EXCEPT ![t] = <<>>]
    /\ UNCHANGED <<other, clients, sched, req, settings, chats, suggestions, inbox, now, lock, disp>>

\* Leaving `async with self._lock` (the cycle returned or raised).
Release(t) ==
    /\ pc[t] = "release"
    /\ lock_owner' = IF lock_owner = t THEN None ELSE lock_owner
    /\ pc' = [pc EXCEPT ![t] = IdlePc(t)]
    /\ cyc' = [cyc EXCEPT ![t] = NoLocals]
    /\ calls' = [calls EXCEPT ![t] = {}]
    /\ outcome' = [outcome EXCEPT ![t] = <<>>]
    /\ UNCHANGED <<other, clients, sched, req, settings, chats, suggestions, inbox, now, lock_waiters, disp>>

(***************************************************************************)
(* generate_suggestions_cycle.  `ok` says whether the awaited call of the  *)
(* step returns (TRUE) or raises (FALSE).                                  *)
(***************************************************************************)
Cur(t) == cyc[t].chats[cyc[t].idx]

Logged(t, op, c) == calls' = [calls EXCEPT ![t] = @ \cup {<<op, c>>}]

\* A loop that ends after the first thread it has gone through.
NextThreadBreaks(t, how) ==
    /\ outcome' = [outcome EXCEPT ![t] = Append(@, how)]
    /\ pc' = [pc EXCEPT ![t] = "release"]
    /\ cyc' = [cyc EXCEPT ![t] = [@ EXCEPT !.source = <<>>, !.latest_id = 0, !.err = ""]]

\* `continue` / the end of the for loop: on to the next thread of the
\* snapshot, or out of the cycle after the last one.
NextThread(t, how) ==
    /\ outcome' = [outcome EXCEPT ![t] = Append(@, how)]
    /\ pc' = [pc EXCEPT ![t] = IF cyc[t].idx < Len(cyc[t].chats) THEN "quota" ELSE "release"]
    /\ cyc' = [cyc EXCEPT ![t] = [@ EXCEPT
                  !.idx = IF cyc[t].idx < Len(cyc[t].chats) THEN @ + 1 ELSE @,
                  !.source = <<>>, !.latest_id = 0, !.err = ""]]

\* An exception outside the per-thread try block leaves the cycle.
Raised(t, e) ==
    /\ pc' = [pc EXCEPT ![t] = "release"]
    /\ cyc' = [cyc EXCEPT ![t] = [@ EXCEPT !.err = e]]
    /\ UNCHANGED outcome

\* A cycle without the per-thread try block.
Uncaught(t, e) == Raised(t, e)

\* `except Exception as e:` of the per-thread try block.
Caught(t, e) ==
    /\ pc' = [pc EXCEPT ![t] = "record_failure"]
    /\ cyc' = [cyc EXCEPT ![t] = [@ EXCEPT !.err = e]]
    /\ UNCHANGED outcome

\* A settings read that keeps the value the task already holds.
ReadSettingsStale(t, ok) ==
    /\ pc[t] = "settings"
    /\ Logged(t, "get_settings", 0)
    /\ IF ok
       THEN /\ pc' = [pc EXCEPT ![t] = "chats"]
            /\ UNCHANGED <<cyc, outcome>>
       ELSE Raised(t, "db error")
    /\ UNCHANGED <<other, clients, sched, req, settings, chats, suggestions, inbox, now, lock, disp>>

\* settings = await get_settings(conn)
ReadSettings(t, ok) ==
    /\ pc[t] = "settings"
    /\ Logged(t, "get_settings", 0)
    /\ IF ok
       THEN /\ pc' = [pc EXCEPT ![t] = "chats"]
            /\ cyc' = [cyc EXCEPT ![t] = [@ EXCEPT !.settings = settings]]
            /\ UNCHANGED outcome
       ELSE Raised(t, "db error")
    /\ UNCHANGED <<other, clients, sched, req, settings, chats, suggestions, inbox, now, lock, disp>>

\* chats = await get_selected_chats(conn); if not chats: return
ListChats(t, ok) ==
    /\ pc[t] = "chats"
    /\ Logged(t, "get_selected_chats", 0)
    /\ IF ok
       THEN /\ pc' = [pc EXCEPT ![t] = IF SelectedChats = <<>> THEN "release" ELSE "quota"]
            /\ cyc' = [cyc EXCEPT ![t] = [@ EXCEPT !.chats = SelectedChats,
                          !.idx = IF SelectedChats = <<>> THEN 0 ELSE 1]]
            /\ UNCHANGED outcome
       ELSE Raised(t, "db error")
    /\ UNCHANGED <<other, clients, sched, req, settings, chats, suggestions, inbox, now, lock, disp>>

\* A quota that lets one Suggestion too many through.
QuotaFullAbove(pending_count, s) == pending_count > s.max_suggestions_per_chat

\* A quota that is never full.
QuotaNeverFull(pending_count, s) == FALSE

\* if pending_count >= settings.max_suggestions_per_chat: continue
QuotaFull(pending_count, s) == pending_count >= s.max_suggestions_per_chat

QuotaCheck(t, ok) ==
    /\ pc[t] = "quota"
    /\ Logged(t, "count_pending", Cur(t).id)
    /\ IF ~ok THEN Caught(t, "db error")
       ELSE IF QuotaFull(CountPending(Cur(t).id), cyc[t].settings)
       THEN NextThread(t, "quota")
       ELSE /\ pc' = [pc EXCEPT ![t] =
                      IF cyc[t].settings.cooldown_minutes > 0 THEN "cooldown" ELSE "fetch"]
            /\ UNCHANGED <<cyc, outcome>>
    /\ UNCHANGED <<other, clients, sched, req, settings, chats, suggestions, inbox, now, lock, disp>>

\* if now - last_created < timedelta(minutes=cooldown_min): continue
InCooldown(last_created, cooldown_min) ==
    last_created # None /\ now - last_created < cooldown_min

CooldownCheck(t, ok) ==
    /\ pc[t] = "cooldown"
    /\ Logged(t, "latest_created_at", Cur(t).id)
    /\ IF ~ok THEN Caught(t, "db error")
       ELSE IF InCooldown(LatestCreatedAt(Cur(t).id), cyc[t].settings.cooldown_minutes)
       THEN NextThread(t, "cooldown")
       ELSE /\ pc' = [pc EXCEPT ![t] = "fetch"]
            /\ UNCHANGED <<cyc, outcome>>
    /\ UNCHANGED <<other, clients, sched, req, settings, chats, suggestions, inbox, now, lock, disp>>

\* A cycle without deduplication.
NeverSeen(latest_id, last_seen) == FALSE

\* if chat.last_seen_message_id is not None and latest_id <= chat.last_seen_message_id
AlreadySeen(latest_id, last_seen) == last_seen # None /\ latest_id <= last_seen

\* Looking at the oldest text message instead of the newest.
OwnerSpokeFirst(source) == source # <<>> /\ source[1].from_me

\* if source and source[-1].from_me
OwnerSpokeLast(source) == source # <<>> /\ source[Len(source)].from_me

\* messages = await tg.fetch_last_messages(...), and the code up to the next await.
Fetch(t, ok) ==
    /\ pc[t] = "fetch"
    /\ Logged(t, "fetch", Cur(t).id)
    /\ LET messages == LastMessages(Cur(t).id, cyc[t].settings.k_messages)
           source == SourceOf(messages)
           latest_id == LatestId(source)
       IN  IF ~ok THEN Caught(t, "connector error")
           ELSE IF messages = <<>> THEN NextThread(t, "no_messages")
           ELSE IF source = <<>> THEN NextThread(t, "no_text")
           ELSE IF AlreadySeen(latest_id, Cur(t).last_seen_message_id)
                THEN NextThread(t, "seen")
           ELSE /\ pc' = [pc EXCEPT ![t] =
                          IF OwnerSpokeLast(source) THEN "wm_self" ELSE "backend"]
                /\ cyc' = [cyc EXCEPT ![t] = [@ EXCEPT !.source = source,
                                                        !.latest_id = latest_id]]
                /\ UNCHANGED outcome
    /\ UNCHANGED <<other, clients, sched, req, settings, chats, suggestions, inbox, now, lock, disp>>

\* reply = await openai.suggest_reply(...)
Backend(t, ok) ==
    /\ pc[t] = "backend"
    /\ Logged(t, "suggest_reply", Cur(t).id)
    /\ IF ok
       THEN /\ pc' = [pc EXCEPT ![t] = "insert"]
            /\ UNCHANGED <<cyc, outcome>>
       ELSE Caught(t, "backend error")
    /\ UNCHANGED <<other, clients, sched, req, settings, chats, suggestions, inbox, now, lock, disp>>

\* create_suggestion(..., status=SuggestionStatus.pending)
PendingRow(t) ==
    [chat |-> Cur(t).id, created |-> now, source |-> cyc[t].source,
     suggested_text |-> "reply", ru_translation |-> "otvet",
     status |-> "pending", error |-> ""]

\* (the table holds at most `rows` rows)
InsertPendingIn(t, ok, rows) ==
    /\ pc[t] = "insert"
    /\ IF ok
       THEN /\ Len(suggestions) < rows
            /\ suggestions' = Append(suggestions, PendingRow(t))
            /\ Logged(t, "insert_pending", Cur(t).id)
            /\ pc' = [pc EXCEPT ![t] = "wm"]
            /\ UNCHANGED <<cyc, outcome>>
       ELSE /\ Caught(t, "db error")
            /\ UNCHANGED <<suggestions, calls>>
    /\ UNCHANGED <<other, clients, sched, req, settings, chats, inbox, now, lock, disp>>

InsertPending(t, ok) == InsertPendingIn(t, ok, MaxSuggestions)

\* update_chat_last_seen_message_id: UPDATE chats SET last_seen_message_id = ?
SetLastSeen(c, id) == [chats EXCEPT ![c].last_seen_message_id = id]

\* await update_chat_last_seen_message_id(conn, chat_id=chat.id, last_seen_message_id=latest_id)
WriteWatermark(t, ok) ==
    /\ pc[t] \in {"wm", "wm_self"}
    /\ IF ok
       THEN /\ chats' = SetLastSeen(Cur(t).id, cyc[t].latest_id)
            /\ Logged(t, "set_last_seen", Cur(t).id)
            /\ NextThread(t, IF pc[t] = "wm" THEN "pending" ELSE "self")
       ELSE /\ Caught(t, "db error")
            /\ UNCHANGED <<chats, calls>>
    /\ UNCHANGED <<other, clients, sched, req, settings, suggestions, inbox, now, lock, disp>>

\* A failure record that drops the exception's message.
FailedRowNoError(t) ==
    [chat |-> Cur(t).id, created |-> now, source |-> <<>>,
     suggested_text |-> "", ru_translation |-> "",
     status |-> "failed", error |-> ""]

\* create_suggestion(..., status=SuggestionStatus.failed, error=str(e))
FailedRow(t) ==
    [chat |-> Cur(t).id, created |-> now, source |-> <<>>,
     suggested_text |-> "", ru_translation |-> "",
     status |-> "failed", error |-> cyc[t].err]

RecordFailure(t, ok) ==
    /\ pc[t] = "record_failure"
    /\ IF ok
       THEN /\ Len(suggestions) < MaxSuggestions
            /\ suggestions' = Append(suggestions, FailedRow(t))
            /\ Logged(t, "insert_failed", Cur(t).id)
            /\ NextThread(t, "failed")
       ELSE /\ NextThread(t, "failed_unrecorded")
            /\ UNCHANGED <<suggestions, calls>>
    /\ UNCHANGED <<other, clients, sched, req, settings, chats, inbox, now, lock, disp>>

\* One step of the cycle of a task of T, its awaited call returning as Oks
\* allow (the cooldown check, made with cooldown_minutes > 0 only, apart).
CycleStep(T, Oks) ==
    \E t \in T, ok \in Oks :
        \/ ReadSettings(t, ok)
        \/ ListChats(t, ok)
        \/ QuotaCheck(t, ok)
        \/ Fetch(t, ok)
        \/ Backend(t, ok)
        \/ InsertPending(t, ok)
        \/ WriteWatermark(t, ok)

(***************************************************************************)
(* The scheduler's life cycle: start(), the loop's iterations, wake() and  *)
(* stop().  The loop task stands at "none" (no task), "created" (not yet   *)
(* run), "wait_settings" (the settings read of _maybe_wait), "sleep" (the  *)
(* timed wait), in run_once(), "cancelled" (cancel() called, the           *)
(* CancelledError not yet delivered) or "done" (finished).  The length of  *)
(* the timed wait is not modelled: a wait may end at any time.             *)
(***************************************************************************)
\* A start() that leaves the stop flag as it is.
StartedStopKept ==
    [sched EXCEPT !.task = TRUE, !.wakeup = TRUE,
                  !.first = TRUE, !.wakes = 0, !.erred = FALSE]

\* self._stop.clear(); self._wakeup.set(); self._task = asyncio.create_task(...)
Started ==
    [sched EXCEPT !.task = TRUE, !.stop = FALSE, !.wakeup = TRUE,
                  !.first = TRUE, !.wakes = 0, !.erred = FALSE]

\* lifespan: await scheduler.start().  A second start() does nothing.
Start ==
    /\ ~sched.task
    /\ sched' = Started
    /\ pc' = [pc EXCEPT ![LoopTask] = "created"]
    /\ UNCHANGED <<other, clients, req, settings, chats, suggestions, inbox, now, lock,
                   cyc, calls, outcome, disp>>

\* _run_loop up to its first await: `while not self._stop.is_set()`.
RunLoop ==
    /\ pc[LoopTask] = "created"
    /\ pc' = [pc EXCEPT ![LoopTask] = IF sched.stop THEN "done" ELSE "wait_settings"]
    /\ UNCHANGED <<other, clients, sched, req, settings, chats, suggestions, inbox, now, lock,
                   cyc, calls, outcome, disp>>

\* A loop that an exception of an iteration ends.
LoopEnds == "done"

\* except Exception: logger.exception(...), and on to the next iteration.
LoopCaught == "wait_settings"

\* A wait that begins without clearing the wake signal.
WaitKeepsSignal == [sched EXCEPT !.wakes = 0]

\* self._wakeup.clear(), before the wait on it.
WaitBegins == [sched EXCEPT !.wakeup = FALSE, !.wakes = 0]

\* _maybe_wait: the settings read returns, the wake signal is cleared and
\* the timed wait begins; or the read raises and _run_loop catches it.
MaybeWait(ok) ==
    /\ pc[LoopTask] = "wait_settings"
    /\ IF ok
       THEN /\ sched' = WaitBegins
            /\ pc' = [pc EXCEPT ![LoopTask] = "sleep"]
       ELSE /\ sched' = [sched EXCEPT !.erred = TRUE]
            /\ pc' = [pc EXCEPT ![LoopTask] = LoopCaught]
    /\ UNCHANGED <<other, clients, req, settings, chats, suggestions, inbox, now, lock,
                   cyc, calls, outcome, disp>>

\* POST /prompts/update and /prompts/restore-defaults: scheduler.wake().
Wake ==
    /\ sched' = Woken
    /\ UNCHANGED <<other, clients, req, settings, chats, suggestions, inbox, now, lock, tasks, disp>>

\* stop() up to `await self._task`: both events set, the loop task cancelled.
Stop ==
    /\ sched.task
    /\ ~sched.stopping
    /\ sched' = [sched EXCEPT !.stop = TRUE, !.wakeup = TRUE, !.stopping = TRUE,
                              !.at = pc[LoopTask]]
    /\ pc' = [pc EXCEPT ![LoopTask] = "cancelled"]
    /\ UNCHANGED <<other, clients, req, settings, chats, suggestions, inbox, now, lock,
                   cyc, calls, outcome, disp>>

\* The store statement the loop task was awaiting when it was cancelled.
InFlight ==
    IF sched.at = "insert" /\ Len(suggestions) < MaxSuggestions
    THEN [suggestions |-> Append(suggestions, PendingRow(LoopTask)), chats |-> chats]
    ELSE IF sched.at = "record_failure" /\ Len(suggestions) < MaxSuggestions
    THEN [suggestions |-> Append(suggestions, FailedRow(LoopTask)), chats |-> chats]
    ELSE IF sched.at \in {"wm", "wm_self"}
    THEN [suggestions |-> suggestions,
          chats |-> SetLastSeen(Cur(LoopTask).id, cyc[LoopTask].latest_id)]
    ELSE [suggestions |-> suggestions, chats |-> chats]

\* A cancellation that leaves the lock with the cancelled task.
StillLocked == lock_owner

\* The cancelled task leaves `async with self._lock`.
Unlocked == IF lock_owner = LoopTask THEN None ELSE lock_owner

\* The CancelledError reaches the loop task where it stands: it leaves the
\* lock (held, or waited for) and _run_loop breaks.  CancelledError is not
\* an Exception, so the cycle records nothing.  A statement already handed
\* to the store's worker thread is executed (landed) or not.
Cancelled(landed) ==
    /\ pc[LoopTask] = "cancelled"
    /\ pc' = [pc EXCEPT ![LoopTask] = "done"]
    /\ lock_owner' = Unlocked
    /\ lock_waiters' = SelectSeq(lock_waiters, LAMBDA t : t # LoopTask)
    /\ cyc' = [cyc EXCEPT ![LoopTask] = NoLocals]
    /\ calls' = [calls EXCEPT ![LoopTask] = {}]
    /\ outcome' = [outcome EXCEPT ![LoopTask] = <<>>]
    /\ suggestions' = IF landed THEN InFlight.suggestions ELSE suggestions
    /\ chats' = IF landed THEN InFlight.chats ELSE chats
    /\ UNCHANGED <<other, clients, sched, req, settings, inbox, now, disp>>

\* stop() after `await self._task`: finally: self._task = None.
StopReturn ==
    /\ sched.stopping
    /\ pc[LoopTask] = "done"
    /\ sched' = [sched EXCEPT !.task = FALSE, !.stopping = FALSE, !.stopped = TRUE]
    /\ pc' = [pc EXCEPT ![LoopTask] = "none"]
    /\ UNCHANGED <<other, clients, req, settings, chats, suggestions, inbox, now, lock,
                   cyc, calls, outcome, disp>>

(***************************************************************************)
(* OpenAIClient.request_json: the retry loop around _request_once.  One    *)
(* call is followed from its start to the value or exception it ends with. *)
(***************************************************************************)
\* except (RateLimitError, APITimeoutError, APIError, json.JSONDecodeError, ValueError)
TransientErrors ==
    {"RateLimitError", "APITimeoutError", "APIError", "JSONDecodeError", "ValueError"}

\* How an attempt can end: a parsed result, an exception that request_json
\* catches, or one it does not catch.
AttemptOutcomes == {"ok", "other"} \cup TransientErrors

\* A client that does not look at its credentials.
AlwaysConfigured == TRUE

\* self.enabled = bool(api_key and api_key.strip())
Configured == enabled

\* A backoff without its cap.
DelayUncapped(attempt) == 2^attempt

\* delay = min(8.0, 2.0**attempt)
Delay(attempt) == IF 2^attempt < 8 THEN 2^attempt ELSE 8

\* A retry loop that goes one attempt too far.
MoreAttemptsOneTooMany == req.call.attempt <= req.max_retries

\* for attempt in range(self.max_retries + 1): another attempt is left.
MoreAttempts == req.call.attempt < req.max_retries

\* token_param = getattr(self, "_token_param", None), or the guess from the
\* model's name.
TokenParam ==
    IF req.token_param # "" THEN req.token_param
    ELSE IF req.gpt5 THEN "max_completion_tokens" ELSE "max_tokens"

\* A client that sends a temperature for every model.
KwargsWithTemperature == [token |-> TokenParam, temperature |-> TRUE]

\* The kwargs of _request_once: a temperature unless the model is of the
\* gpt-5 family, and the token budget under the cached or guessed name.
Kwargs == [token |-> TokenParam, temperature |-> ~req.gpt5]

\* The backend takes a request with these parameters.
Accepts(kwargs) ==
    /\ kwargs.token = req.backend.token
    /\ kwargs.temperature => req.backend.temperature

\* _request_once up to its first await: the first create call is sent.
Attempting(call) ==
    [call EXCEPT !.pc = "attempt", !.sent = @ + 1, !.http = @ + 1, !.resent = 0,
                 !.kwargs = Kwargs, !.reply = <<>>]

\* request_json up to its first await: an unconfigured client raises,
\* a configured one makes attempt 0.
RequestJson ==
    /\ req.call.pc = "idle"
    /\ req' = IF Configured
              THEN [req EXCEPT !.token_param = TokenParam, !.call = Attempting(NoRequest)]
              ELSE [req EXCEPT !.call = [NoRequest EXCEPT !.pc = "raised",
                                            !.error = "OpenAI is not configured"]]
    /\ UNCHANGED <<other, clients, sched, settings, chats, suggestions, inbox, now, lock, tasks, disp>>

\* The exceptions of the response validation: the two ValueErrors of
\* _request_once, and pydantic's ValidationError.
RefusalError == "ValueError: OpenAI refusal"
EmptyError == "ValueError: Empty OpenAI response content"
ValidationError == "ValidationError"

\* The class an `except` clause sees an exception as: its own class or a
\* base class.  BadRequestError is an APIError and ValidationError a
\* ValueError, as json.JSONDecodeError is; request_json names that one
\* itself.
CaughtAs(how) ==
    CASE how \in {RefusalError, EmptyError, ValidationError} -> "ValueError"
      [] how = "BadRequestError" -> "APIError"
      [] OTHER -> how

\* One more rejection on record.
Counted(n) == IF n < MaxRejections THEN n + 1 ELSE n

\* The re-sent request carries a token parameter name the backend does not
\* take: a re-send follows the correction of the temperature, so the name
\* is all the backend can reject it for.
NameRefused ==
    /\ req.call.pc = "resend"
    /\ req.call.kwargs.token # req.backend.token

\* await self._request_once(...) returns, or raises: a caught exception is
\* kept as last_err and the backoff sleep begins; any other one leaves
\* request_json.
Concluded(call, how) ==
    IF how = "ok"
    THEN [call EXCEPT !.pc = "returned", !.result = "json"]
    ELSE IF CaughtAs(how) \in TransientErrors
    THEN [call EXCEPT !.pc = "sleep", !.last_err = how,
                      !.errs = Append(@, how),
                      !.delays = Append(@, Delay(call.attempt))]
    ELSE [call EXCEPT !.pc = "raised", !.error = how]

\* A create call, and with it _request_once, ends as `how` says.  The
\* backend answers a request only if it takes its parameters.
Outcome(how) ==
    /\ how = "ok" => Accepts(req.call.kwargs)
    /\ req' = [req EXCEPT
                  !.name_rejected = IF how = "BadRequestError" /\ NameRefused
                                    THEN Counted(@) ELSE @,
                  !.call = Concluded(@, how)]

\* await self._request_once(...) returns or raises at its first create.
RequestOnce(how) ==
    /\ req.call.pc = "attempt"
    /\ Outcome(how)
    /\ UNCHANGED <<other, clients, sched, settings, chats, suggestions, inbox, now, lock, tasks, disp>>

\* The completions a backend may answer with.  message.content is None,
\* empty, blank, a text that is not JSON, or the serialisation of a JSON
\* object `doc` (content "json"), each field of which is absent, an empty
\* string or a text; message.refusal is None (""), or a reason.
NoContent == "None"
Absent == "absent"
FieldValues == {Absent, "", "ok"}
NoDoc == [suggested_text |-> Absent, ru_translation |-> Absent]
Docs == [suggested_text : FieldValues, ru_translation : FieldValues]
Refusals == {"", "policy"}
Replies ==
    [content : {NoContent, "", " ", "sorry"}, doc : {NoDoc}, refusal : Refusals]
      \cup [content : {"json"}, doc : Docs, refusal : Refusals]

\* content = (msg0.content or "").strip()
Content(reply) ==
    IF reply.content \in {NoContent, "", " "} THEN "" ELSE reply.content

\* A validation that does not look at the refusal.
ValidatedNoRefusal(reply) ==
    IF Content(reply) = "" THEN EmptyError
    ELSE IF Content(reply) # "json" THEN "JSONDecodeError"
    ELSE IF \E f \in {"suggested_text", "ru_translation"} :
               reply.doc[f] = Absent \/ reply.doc[f] = ""
    THEN ValidationError
    ELSE "ok"

\* The end of _request_once: "ok" when the reply gives a value, or the
\* exception raised.  ReplySuggestion requires both texts, of length 1 at
\* least.
Validated(reply) ==
    IF Content(reply) = ""
    THEN IF reply.refusal # "" THEN RefusalError ELSE EmptyError
    ELSE IF Content(reply) # "json" THEN "JSONDecodeError"
    ELSE IF \E f \in {"suggested_text", "ru_translation"} :
               reply.doc[f] = Absent \/ reply.doc[f] = ""
    THEN ValidationError
    ELSE "ok"

\* A create call, the first or the re-sent one, returns a completion, and
\* _request_once validates it.
Replied(reply) ==
    /\ req.call.pc \in {"attempt", "resend"}
    /\ Accepts(req.call.kwargs)
    /\ req' = [req EXCEPT !.call =
                  Concluded([@ EXCEPT !.reply = <<reply>>], Validated(reply))]
    /\ UNCHANGED <<other, clients, sched, settings, chats, suggestions, inbox, now, lock, tasks, disp>>

\* The messages of the backend's BadRequestError: the token-budget
\* parameter sent is not the one the model takes, the model takes the
\* default temperature only, and any other rejection.
UseCompletionTokens ==
    "Unsupported parameter: 'max_tokens' is not supported with this model. Use 'max_completion_tokens' instead."
UseMaxTokens ==
    "Unsupported parameter: 'max_completion_tokens' is not supported with this model. Use 'max_tokens' instead."
DefaultTemperatureOnly ==
    "Unsupported value: 'temperature' does not support 0.7 with this model. Only the default (1) value is supported."
OtherBadRequest == "Invalid request"
BadRequests == {UseCompletionTokens, UseMaxTokens, DefaultTemperatureOnly, OtherBadRequest}

\* `phrase in msg`, for the phrases _request_once looks for.
Contains(msg, phrase) ==
    phrase \in
        CASE msg = UseCompletionTokens ->
                 {"max_tokens", "max_completion_tokens", "max_tokens' is not supported",
                  "Use 'max_completion_tokens' instead"}
          [] msg = UseMaxTokens ->
                 {"max_tokens", "max_completion_tokens",
                  "max_completion_tokens' is not supported", "Use 'max_tokens' instead"}
          [] msg = DefaultTemperatureOnly -> {"temperature", "Only the default"}
          [] OTHER -> {}

\* The message the backend rejects these parameters with, if it does.
Rejects(kwargs, msg) ==
    \/ msg = UseCompletionTokens /\ kwargs.token = "max_tokens"
                                 /\ req.backend.token = "max_completion_tokens"
    \/ msg = UseMaxTokens /\ kwargs.token = "max_completion_tokens"
                          /\ req.backend.token = "max_tokens"
    \/ msg = DefaultTemperatureOnly /\ kwargs.temperature /\ ~req.backend.temperature

\* A client that answers a rejection of the token parameter by raising.
NoCorrection(msg) ==
    IF Contains(msg, "temperature")
       /\ (Contains(msg, "Only the default") \/ Contains(msg, "unsupported"))
    THEN "temperature"
    ELSE "raise"

\* except BadRequestError as e: what the message makes _request_once do.
Correction(msg) ==
    IF Contains(msg, "max_tokens") /\ Contains(msg, "max_completion_tokens")
    THEN IF \/ Contains(msg, "max_tokens' is not supported")
            \/ Contains(msg, "Use 'max_completion_tokens' instead")
         THEN "max_completion_tokens"
         ELSE IF \/ Contains(msg, "max_completion_tokens' is not supported")
                 \/ Contains(msg, "Use 'max_tokens' instead")
         THEN "max_tokens"
         ELSE "raise"
    ELSE IF Contains(msg, "temperature")
            /\ (Contains(msg, "Only the default") \/ Contains(msg, "unsupported"))
    THEN "temperature"
    ELSE "raise"

\* The first create call of an attempt raises BadRequestError: the request
\* is sent again at once under the other token parameter name (which is
\* cached) or without temperature, or the error leaves _request_once and
\* request_json catches it as an APIError.
Rejected(msg) ==
    /\ req.call.pc = "attempt"
    /\ msg = OtherBadRequest \/ Rejects(req.call.kwargs, msg)
    /\ IF Correction(msg) = "raise"
       THEN Outcome("BadRequestError")
       ELSE req' = [req EXCEPT
                !.name_rejected = IF msg \in {UseCompletionTokens, UseMaxTokens}
                                  THEN Counted(@) ELSE @,
                !.token_param = IF Correction(msg) = "temperature" THEN @ ELSE Correction(msg),
                !.call = [@ EXCEPT
                    !.pc = "resend", !.http = @ + 1, !.resent = @ + 1,
                    !.kwargs = IF Correction(msg) = "temperature"
                               THEN [@ EXCEPT !.temperature = FALSE]
                               ELSE [@ EXCEPT !.token = Correction(msg)]]]
    /\ UNCHANGED <<other, clients, sched, settings, chats, suggestions, inbox, now, lock, tasks, disp>>

\* A client that corrects the re-sent request too and sends it once more.
ResentCorrected(how) ==
    /\ req.call.pc = "resend"
    /\ how = "BadRequestError" => \E msg \in BadRequests : Rejects(req.call.kwargs, msg)
    /\ IF how = "BadRequestError"
       THEN req' = [req EXCEPT !.call = [@ EXCEPT
                       !.http = @ + 1, !.resent = @ + 1,
                       !.kwargs = [token |-> req.backend.token, temperature |-> FALSE]]]
       ELSE Outcome(how)
    /\ UNCHANGED <<other, clients, sched, settings, chats, suggestions, inbox, now, lock, tasks, disp>>

\* The create call sent again returns or raises; it is outside the try
\* block, so a second BadRequestError leaves _request_once.
Resent(how) ==
    /\ req.call.pc = "resend"
    /\ how = "BadRequestError" => \E msg \in BadRequests : Rejects(req.call.kwargs, msg)
    /\ Outcome(how)
    /\ UNCHANGED <<other, clients, sched, settings, chats, suggestions, inbox, now, lock, tasks, disp>>

\* await asyncio.sleep(delay) returns: the next attempt, or after the last
\* one `raise last_err`.
BackoffDone ==
    /\ req.call.pc = "sleep"
    /\ req' = [req EXCEPT !.call =
                  IF MoreAttempts
                  THEN Attempting([@ EXCEPT !.attempt = @ + 1])
                  ELSE [@ EXCEPT !.pc = "raised", !.error = req.call.last_err]]
    /\ UNCHANGED <<other, clients, sched, settings, chats, suggestions, inbox, now, lock, tasks, disp>>

\* The caller has the value or the exception; the next call may begin.
RequestDone ==
    /\ req.call.pc \in {"returned", "raised"}
    /\ req' = [req EXCEPT !.call = NoRequest]
    /\ UNCHANGED <<other, clients, sched, settings, chats, suggestions, inbox, now, lock, tasks, disp>>

(***************************************************************************)
(* The environment: the clock, and messages arriving in a thread (from the *)
(* other party, or written by the thread owner on another device).         *)
(***************************************************************************)
Tick ==
    /\ now < MaxTime
    /\ now' = now + 1
    /\ UNCHANGED <<other, clients, sched, req, settings, chats, suggestions, inbox, lock, tasks, disp>>

RECURSIVE TotalMessages(_)
TotalMessages(S) ==
    IF S = {} THEN 0
    ELSE LET c == CHOOSE x \in S : TRUE IN Len(inbox[c]) + TotalMessages(S \ {c})

\* Telegram numbers the messages of a thread in increasing order.
Delivered(c, from_me, text) ==
    Append(inbox[c], [id |-> Len(inbox[c]) + 1, from_me |-> from_me, text |-> text])

\* A message arrives in thread c (the connector holds at most `room`).
Arrives(c, from_me, text, room) ==
    /\ TotalMessages(Threads) < room
    /\ inbox' = [inbox EXCEPT ![c] = Delivered(c, from_me, text)]
    /\ UNCHANGED <<other, clients, sched, req, settings, chats, suggestions, now, lock, tasks, disp>>

NewMessage(c, from_me, text) == Arrives(c, from_me, text, MaxMsgs)

(***************************************************************************)
(* The dashboard handlers.                                                 *)
(***************************************************************************)
\* POST /chats/sync: upsert every dialog; new rows are unselected.
ChatsSync ==
    /\ authorized
    /\ chats' = [c \in Threads |-> [chats[c] EXCEPT !.known = TRUE]]
    /\ UNCHANGED <<other, clients, sched, req, settings, suggestions, inbox, now, lock, tasks, disp>>

\* A save that rewrites the rows, watermark included.
ChatsSaveResets(selected) ==
    /\ chats' = [c \in Threads |->
                   [known |-> chats[c].known, is_selected |-> chats[c].known /\ c \in selected,
                    last_seen_message_id |-> None]]
    /\ UNCHANGED <<other, clients, sched, req, settings, suggestions, inbox, now, lock, tasks, disp>>

\* POST /chats/save: set_selected_chats.
ChatsSave(selected) ==
    /\ chats' = [c \in Threads |->
                   [chats[c] EXCEPT !.is_selected = chats[c].known /\ c \in selected]]
    /\ UNCHANGED <<other, clients, sched, req, settings, suggestions, inbox, now, lock, tasks, disp>>

\* POST /settings/save: save_settings, then scheduler.wake().
SettingsSave(s) ==
    /\ settings' = s
    /\ sched' = Woken
    /\ UNCHANGED <<other, clients, req, chats, suggestions, inbox, now, lock, tasks, disp>>

\* update_suggestion_status: UPDATE suggestions SET status = ?, error = ? WHERE id = ?
SetStatus(sid, status, error) ==
    [suggestions EXCEPT ![sid] = [@ EXCEPT !.status = status, !.error = error]]

\* POST /suggestions/{id}/decline
Decline(sid) ==
    /\ sid \in 1..Len(suggestions)
    /\ suggestions' = SetStatus(sid, "declined", "")
    /\ UNCHANGED <<other, clients, sched, req, settings, chats, inbox, now, lock, tasks, disp>>

\* POST /suggestions/{id}/send: the row is read and must be pending.
SendRead(sid) ==
    /\ disp.pc = "idle"
    /\ sid \in 1..Len(suggestions)
    /\ suggestions[sid].status = "pending"
    /\ disp' = IF MessageText(suggestions[sid].suggested_text) = ""
               THEN [NoDisp EXCEPT !.pc = "mark_failed", !.sid = sid,
                                   !.err = "Empty suggested_text; nothing to send."]
               ELSE [NoDisp EXCEPT !.pc = "sending", !.sid = sid]
    /\ UNCHANGED <<other, clients, sched, req, settings, chats, suggestions, inbox, now, lock, tasks>>

(***************************************************************************)
(* The reply-target selector of POST /suggestions/{id}/send-reply.         *)
(***************************************************************************)
\* The characters of the message texts of stored source lists.
Chars(text) ==
    CASE text = ""              -> <<>>
      [] text = " "             -> <<" ">>
      [] text = "hi"            -> <<"h", "i">>
      [] text = "ok"            -> <<"o", "k">>
      [] text = "hey"           -> <<"h", "e", "y">>
      [] text = "."             -> <<".">>
      [] text = "?"             -> <<"?">>
      [] text = " ok? "         -> <<" ", "o", "k", "?", " ">>
      [] text = "are you free?" -> <<"a", "r", "e", " ", "y", "o", "u", " ",
                                     "f", "r", "e", "e", "?">>

\* str.strip()
RECURSIVE StripLeft(_)
StripLeft(cs) ==
    IF cs # <<>> /\ Head(cs) = " " THEN StripLeft(Tail(cs)) ELSE cs

RECURSIVE StripRight(_)
StripRight(cs) ==
    IF cs # <<>> /\ cs[Len(cs)] = " " THEN StripRight(SubSeq(cs, 1, Len(cs) - 1)) ELSE cs

Strip(cs) == StripRight(StripLeft(cs))

\* _QUESTION_RE: the class of "?", U+FF1F (fullwidth) and U+00BF (inverted)
QuestionMarks == {"?", "U+FF1F", "U+00BF"}

\* re.search(pattern, text_m): some character of the text is in the class
Search(class, cs) == \E i \in 1..Len(cs) : cs[i] \in class

\* \w (of the characters the texts use)
WordChars == {"a", "e", "f", "h", "i", "k", "o", "r", "u", "y"}

\* score = idx, +50 for a question mark, -25 for fewer than 3 characters,
\* -25 for no word character
ScoreNoQuestion(idx, text) ==
    LET text_m == Strip(Chars(text)) IN
    idx + (IF Len(text_m) < 3 THEN -25 ELSE 0)
        + (IF ~Search(WordChars, text_m) THEN -25 ELSE 0)

Score(idx, text) ==
    LET text_m == Strip(Chars(text)) IN
    idx + (IF Search(QuestionMarks, text_m) THEN 50 ELSE 0)
        + (IF Len(text_m) < 3 THEN -25 ELSE 0)
        + (IF ~Search(WordChars, text_m) THEN -25 ELSE 0)

\* if m.get("from_me") is not False: continue ... if mid <= 0: continue
Incoming(m) == m.from_me = FALSE /\ m.id > 0

\* if score > best_score
BetterOrEqual(score, best_score) == score >= best_score

Better(score, best_score) == score > best_score

\* for idx, m in enumerate(src): the loop from index idx on (idx from 0)
RECURSIVE SelectFrom(_, _, _, _)
SelectFrom(src, idx, best_score, best_id) ==
    IF idx >= Len(src)
    THEN best_id
    ELSE LET m == src[idx + 1]
             score == Score(idx, m.text)
         IN  IF Incoming(m) /\ Better(score, best_score)
             THEN SelectFrom(src, idx + 1, score, m.id)
             ELSE SelectFrom(src, idx + 1, best_score, best_id)

\* best_score = -10_000; best_id = None; ...; reply_to_id = best_id
ReplyTarget(src) == SelectFrom(src, 0, -10000, None)

\* POST /suggestions/{id}/send-reply: the row is read and must be pending;
\* without a reply target the handler returns send_suggestion(...); with one,
\* tg.send_message(chat_id, text, reply_to_message_id=...) raises TypeError
\* (send_message takes no such argument) and the row is marked failed.
SendReplyRead(sid) ==
    /\ disp.pc = "idle"
    /\ sid \in 1..Len(suggestions)
    /\ suggestions[sid].status = "pending"
    /\ LET reply_to_id == ReplyTarget(suggestions[sid].source) IN
       disp' = IF MessageText(suggestions[sid].suggested_text) = ""
               THEN [NoDisp EXCEPT !.pc = "mark_failed", !.sid = sid,
                                   !.err = "Empty suggested_text; nothing to send."]
               ELSE IF reply_to_id = None
               THEN [NoDisp EXCEPT !.pc = "fallback", !.sid = sid]
               ELSE [NoDisp EXCEPT !.pc = "mark_failed", !.sid = sid,
                                   !.reply_to = reply_to_id,
                                   !.err = "unexpected keyword argument"]
    /\ UNCHANGED <<other, clients, sched, req, settings, chats, suggestions, inbox, now, lock, tasks>>

\* return await send_suggestion(request, suggestion_id): the row is read again
SendFallback ==
    /\ disp.pc = "fallback"
    /\ disp' = IF suggestions[disp.sid].status = "pending"
               THEN [disp EXCEPT !.pc = "sending"]
               ELSE NoDisp
    /\ UNCHANGED <<other, clients, sched, req, settings, chats, suggestions, inbox, now, lock, tasks>>

\* msg = await tg.send_message(chat_id, text)
SendMessageIn(ok, room) ==
    /\ disp.pc = "sending"
    /\ LET c == suggestions[disp.sid].chat IN
       IF ok
       THEN /\ authorized
            /\ TotalMessages(Threads) < room
            /\ inbox' = [inbox EXCEPT ![c] =
                            Delivered(c, TRUE, suggestions[disp.sid].suggested_text)]
            /\ disp' = [disp EXCEPT !.pc = "wm", !.msg_id = Len(inbox[c]) + 1]
       ELSE /\ disp' = [disp EXCEPT !.pc = "mark_failed", !.err = "send error"]
            /\ UNCHANGED inbox
    /\ UNCHANGED <<other, clients, sched, req, settings, chats, suggestions, now, lock, tasks>>

SendMessage(ok) == SendMessageIn(ok, MaxMsgs)

\* if msg_id: await update_chat_last_seen_message_id(..., last_seen_message_id=msg_id)
SendWatermark(ok) ==
    /\ disp.pc = "wm"
    /\ IF ok
       THEN /\ chats' = SetLastSeen(suggestions[disp.sid].chat, disp.msg_id)
            /\ disp' = [disp EXCEPT !.pc = "mark_sent"]
       ELSE /\ disp' = [disp EXCEPT !.pc = "mark_failed", !.err = "db error"]
            /\ UNCHANGED chats
    /\ UNCHANGED <<other, clients, sched, req, settings, suggestions, inbox, now, lock, tasks>>

\* await update_suggestion_status(..., status=SuggestionStatus.sent)
SendMarkSent(ok) ==
    /\ disp.pc = "mark_sent"
    /\ IF ok
       THEN /\ suggestions' = SetStatus(disp.sid, "sent", "")
            /\ disp' = NoDisp
       ELSE /\ disp' = [disp EXCEPT !.pc = "mark_failed", !.err = "db error"]
            /\ UNCHANGED suggestions
    /\ UNCHANGED <<other, clients, sched, req, settings, chats, inbox, now, lock, tasks>>

\* except Exception as e: await update_suggestion_status(..., failed, error=str(e))
SendMarkFailed(ok) ==
    /\ disp.pc = "mark_failed"
    /\ suggestions' = IF ok THEN SetStatus(disp.sid, "failed", disp.err) ELSE suggestions
    /\ disp' = NoDisp
    /\ UNCHANGED <<other, clients, sched, req, settings, chats, inbox, now, lock, tasks>>

\* Two requests in progress at once: each handler is a coroutine of the
\* one event loop, which runs the other one when this one is suspended at
\* an await.  The handler that runs becomes `disp`.
SwitchHandler ==
    /\ other # disp
    /\ disp' = other
    /\ other' = disp
    /\ UNCHANGED <<clients, sched, req, settings, chats, suggestions, inbox, now, lock, tasks>>

\* The send handler's steps after the row is read.
SendStep(Oks) ==
    \E ok \in Oks :
        \/ SendMessage(ok)
        \/ SendWatermark(ok)
        \/ SendMarkSent(ok)

\* Stored source lists: an older message, some messages of the owner, and a
\* newer message; each of the two incoming or not, with an id or without.
SourceTexts == {"hi", "ok", "hey", ".", "?", " ok? ", "are you free?"}
Shapes == [text : SourceTexts, from_me : BOOLEAN, id : BOOLEAN]
Gaps == {0, (MaxGap - 1) \div 2, MaxGap}
Entry(shape, i) ==
    [id |-> IF shape.id THEN i ELSE 0, from_me |-> shape.from_me, text |-> shape.text]
Between(a, gap, b) ==
    [i \in 1..(gap + 2) |->
        IF i = 1 THEN Entry(a, 1)
        ELSE IF i = gap + 2 THEN Entry(b, i)
        ELSE [id |-> i, from_me |-> TRUE, text |-> "ok"]]
SourceLists ==
    {<<>>} \cup {<<Entry(a, 1)>> : a \in Shapes}
           \cup {Between(a, gap, b) : a \in Shapes, gap \in Gaps, b \in Shapes}

\* A pending row of thread 1 as an earlier run left it, with the watermark
\* the cycle wrote for it.
StoredRow(src) ==
    [chat |-> 1, created |-> 0, source |-> src,
     suggested_text |-> "reply", ru_translation |-> "otvet",
     status |-> "pending", error |-> ""]
StoredChats(src) ==
    [NoChats EXCEPT ![1] = [known |-> TRUE, is_selected |-> TRUE,
                            last_seen_message_id |->
                                IF LatestId(src) > 0 THEN LatestId(src) ELSE None]]

(***************************************************************************)
(* The specification of the whole system.                                  *)
(***************************************************************************)
Next ==
    \/ \E t \in Tasks : RunNow(t)
    \/ Start
    \/ RunLoop
    \/ \E ok \in BOOLEAN : MaybeWait(ok)
    \/ LoopWake
    \/ Wake
    \/ Stop
    \/ \E landed \in BOOLEAN : Cancelled(landed)
    \/ StopReturn
    \/ RequestJson
    \/ \E how \in AttemptOutcomes : RequestOnce(how)
    \/ \E msg \in BadRequests : Rejected(msg)
    \/ \E how \in AttemptOutcomes \cup {"BadRequestError"} : Resent(how)
    \/ \E reply \in Replies : Replied(reply)
    \/ BackoffDone
    \/ RequestDone
    \/ \E t \in Tasks : Granted(t)
    \/ \E t \in Tasks : Release(t)
    \/ CycleStep(Tasks, BOOLEAN)
    \/ \E t \in Tasks, ok \in BOOLEAN : CooldownCheck(t, ok)
    \/ \E t \in Tasks, ok \in BOOLEAN : RecordFailure(t, ok)
    \/ Tick
    \/ \E c \in Threads, from_me \in BOOLEAN, text \in RawTexts : NewMessage(c, from_me, text)
    \/ ChatsSync
    \/ \E selected \in SUBSET Threads : ChatsSave(selected)
    \/ \E s \in SettingsValues : SettingsSave(s)
    \/ \E sid \in 1..MaxSuggestions : Decline(sid)
    \/ \E sid \in 1..MaxSuggestions : SendRead(sid)
    \/ \E sid \in 1..MaxSuggestions : SendReplyRead(sid)
    \/ SendFallback
    \/ SendStep(BOOLEAN)
    \/ \E ok \in BOOLEAN : SendMarkFailed(ok)
    \/ SwitchHandler

Spec == Init /\ [][Next]_vars

(***************************************************************************)
(* Sub-specifications.  All of them have the cycle, chat sync, selection   *)
(* of every thread and messages with a text from the other party.          *)
(***************************************************************************)
Basics ==
    \/ Start
    \/ RunLoop
    \/ MaybeWait(TRUE)
    \/ LoopWake
    \/ \E t \in Tasks : Release(t)
    \/ \E c \in Threads : NewMessage(c, FALSE, "hi")
    \/ ChatsSync
    \/ ChatsSave(Threads)

\* Scheduler and run-now tasks contending for the lock; calls may raise.
NextLock ==
    \/ Basics
    \/ \E t \in Tasks : RunNow(t)
    \/ \E t \in Tasks : Granted(t)
    \/ CycleStep(Tasks, BOOLEAN)
    \/ \E t \in Tasks, ok \in BOOLEAN : RecordFailure(t, ok)

SpecLock == Init /\ [][NextLock]_vars

\* The quota: settings saves that move the limit, decline and send.
NextQuota ==
    \/ Basics
    \/ \E t \in Tasks : RunNow(t)
    \/ \E t \in Tasks : Granted(t)
    \/ CycleStep(Tasks, {TRUE})
    \/ \E s \in {DefaultSettings, MoreQuota} : SettingsSave(s)
    \/ \E sid \in 1..MaxSuggestions : Decline(sid)
    \/ \E sid \in 1..MaxSuggestions : SendRead(sid)
    \/ SendStep({TRUE})

SpecQuota == Init /\ [][NextQuota]_vars

\* The watermark: every kind of message, the fetch window, send.
NextWatermark ==
    \/ Basics
    \/ CycleStep({LoopTask}, BOOLEAN)
    \/ \E ok \in BOOLEAN : RecordFailure(LoopTask, ok)
    \/ \E c \in Threads, from_me \in BOOLEAN, text \in RawTexts : NewMessage(c, from_me, text)
    \/ \E s \in {DefaultSettings, ShortWindow} : SettingsSave(s)
    \/ \E sid \in 1..MaxSuggestions : SendRead(sid)
    \/ SendStep({TRUE})

SpecWatermark == Init /\ [][NextWatermark]_vars

\* The cooldown: the clock, settings saves that switch it, failures.
NextCooldown ==
    \/ Basics
    \/ CycleStep({LoopTask}, BOOLEAN)
    \/ \E ok \in BOOLEAN : CooldownCheck(LoopTask, ok)
    \/ \E ok \in BOOLEAN : RecordFailure(LoopTask, ok)
    \/ Tick
    \/ \E s \in {DefaultSettings, WithCooldown} : SettingsSave(s)
    \/ \E sid \in 1..MaxSuggestions : Decline(sid)

SpecCooldown == Init /\ [][NextCooldown]_vars

\* The scheduler's life cycle: start, wake and stop around the loop and a
\* run-now task; the calls made outside the per-thread try block may raise.
NextScheduler ==
    \/ Basics
    \/ MaybeWait(FALSE)
    \/ Wake
    \/ Stop
    \/ \E landed \in BOOLEAN : Cancelled(landed)
    \/ StopReturn
    \/ \E t \in Tasks : RunNow(t)
    \/ \E t \in Tasks : Granted(t)
    \/ CycleStep(Tasks, {TRUE})
    \/ \E t \in Tasks : ReadSettings(t, FALSE) \/ ListChats(t, FALSE)

SpecScheduler == Init /\ [][NextScheduler]_vars

\* Overlapping run_once() calls under a fair event loop: every task that
\* can run is run, and every awaited call returns.
NextRunOnce ==
    \/ Basics
    \/ \E t \in Tasks : RunNow(t)
    \/ \E t \in Tasks : Granted(t)
    \/ CycleStep(Tasks, {TRUE})
    \/ \E s \in {DefaultSettings, ShortWindow} : SettingsSave(s)

\* A step of run_once() of task t, from the wait for the lock to its release.
RunOnceStep(t) ==
    \/ Granted(t)
    \/ Release(t)
    \/ CycleStep({t}, {TRUE})

SpecRunOnceFair ==
    Init /\ [][NextRunOnce]_vars /\ \A t \in Tasks : WF_vars(RunOnceStep(t))

\* stop() under a fair event loop: the cancelled loop task and the stop()
\* that awaits it are run.
NextStop ==
    \/ Basics
    \/ Stop
    \/ \E landed \in BOOLEAN : Cancelled(landed)
    \/ StopReturn
    \/ \E t \in Tasks : RunNow(t)
    \/ \E t \in Tasks : Granted(t)
    \/ CycleStep(Tasks, {TRUE})

SpecStopFair ==
    /\ Init /\ [][NextStop]_vars
    /\ WF_vars(\E landed \in BOOLEAN : Cancelled(landed))
    /\ WF_vars(StopReturn)

\* The lock under a fair event loop, with stop(): cycles return, raise at
\* their settings read or thread listing, or are cancelled; every task that
\* can run is run, and the cancellation is delivered.
NextLockFair ==
    \/ NextStop
    \/ \E t \in Tasks : ReadSettings(t, FALSE) \/ ListChats(t, FALSE)

SpecLockFair ==
    /\ Init /\ [][NextLockFair]_vars
    /\ \A t \in Tasks : WF_vars(RunOnceStep(t))
    /\ WF_vars(\E landed \in BOOLEAN : Cancelled(landed))
    /\ WF_vars(StopReturn)

\* The backend client: request_json calls one after another, for every
\* configured max_retries and every way an attempt can end.
NextBackend ==
    \/ RequestJson
    \/ \E how \in AttemptOutcomes : RequestOnce(how)
    \/ BackoffDone
    \/ RequestDone

SpecBackend == InitBackend /\ [][NextBackend]_vars

\* The negotiation of the request's parameters: any model family served by
\* any backend, which rejects the parameters it does not take and answers
\* every other request; any configured max_retries.
InitNegotiation ==
    \E n \in RetryConfigs, gpt5 \in BOOLEAN, backend \in Backends :
        ConstructedFor(n, gpt5, backend)

NextNegotiation ==
    \/ RequestJson
    \/ RequestOnce("ok")
    \/ \E msg \in BadRequests \ {OtherBadRequest} : Rejected(msg)
    \/ \E how \in {"ok", "BadRequestError"} : Resent(how)
    \/ BackoffDone
    \/ RequestDone

SpecNegotiation == InitNegotiation /\ [][NextNegotiation]_vars

\* The validation of the backend's replies: request_json calls one after
\* another, for every configured max_retries and every kind of reply.
NextValidation ==
    \/ RequestJson
    \/ \E reply \in Replies : Replied(reply)
    \/ BackoffDone
    \/ RequestDone

SpecValidation == InitBackend /\ [][NextValidation]_vars

\* The traffic of a call: the negotiation with, besides, requests that
\* fail for another reason, first or re-sent, caught by request_json or not.
NextTraffic ==
    \/ RequestJson
    \/ \E how \in {"ok", "APIError", "other"} : RequestOnce(how)
    \/ \E msg \in BadRequests : Rejected(msg)
    \/ \E how \in {"ok", "BadRequestError", "APIError", "other"} : Resent(how)
    \/ BackoffDone
    \/ RequestDone

SpecTraffic == InitNegotiation /\ [][NextTraffic]_vars

\* Dispatch: decline, send and send-as-reply on the rows the cycles make,
\* with thread sync, selection and settings saves; the handlers' calls may
\* raise.
NextDispatch ==
    \/ Basics
    \/ CycleStep({LoopTask}, {TRUE})
    \/ \E sid \in 1..MaxSuggestions : Decline(sid)
    \/ \E sid \in 1..MaxSuggestions : SendRead(sid)
    \/ \E sid \in 1..MaxSuggestions : SendReplyRead(sid)
    \/ SendStep(BOOLEAN)
    \/ \E ok \in BOOLEAN : SendMarkFailed(ok)
    \/ \E s \in {DefaultSettings, ShortWindow} : SettingsSave(s)

SpecDispatch == Init /\ [][NextDispatch]_vars

\* One thread with one more message and one more row than elsewhere: a
\* reply is sent, the other side answers, Suggestions are declined.
MoreMsgs == MaxMsgs + 1
MoreSuggestions == MaxSuggestions + 1

NextDedup ==
    \/ Basics
    \/ CycleStep({LoopTask}, {TRUE})
    \/ Arrives(1, FALSE, "hi", MoreMsgs)
    \/ InsertPendingIn(LoopTask, TRUE, MoreSuggestions)
    \/ \E sid \in 1..MoreSuggestions : Decline(sid)
    \/ \E sid \in 1..MoreSuggestions : SendRead(sid)
    \/ SendMessageIn(TRUE, MoreMsgs)
    \/ SendWatermark(TRUE)
    \/ SendMarkSent(TRUE)

SpecDedup == Init /\ [][NextDedup]_vars

\* Settings saves and selection changes before and during the cycles.
NextSnapshot ==
    \/ Basics
    \/ CycleStep({LoopTask}, {TRUE})
    \/ \E s \in {DefaultSettings, ShortWindow, MoreQuota} : SettingsSave(s)
    \/ \E selected \in SUBSET Threads : ChatsSave(selected)

SpecSnapshot == Init /\ [][NextSnapshot]_vars

\* Send-as-reply on a stored pending row, for each stored source list.
InitSelector ==
    \E src \in SourceLists :
        Opened(StoredChats(src), <<StoredRow(src)>>,
               Client(DefaultMaxRetries, DefaultGpt5, DefaultBackend))

NextSelector ==
    \/ \E sid \in 1..MaxSuggestions : SendReplyRead(sid)
    \/ SendFallback
    \/ SendStep({TRUE})
    \/ SendMarkFailed(TRUE)

SpecSelector == InitSelector /\ [][NextSelector]_vars

\* Two requests at once for a stored pending row: send and send-as-reply
\* in any combination and interleaving, every call succeeding.
NextConcurrent ==
    \/ NextSelector
    \/ \E sid \in 1..MaxSuggestions : SendRead(sid)
    \/ SwitchHandler

SpecConcurrent == InitSelector /\ [][NextConcurrent]_vars

(***************************************************************************)
(* Properties.                                                             *)
(***************************************************************************)
\* The task is inside the body of generate_suggestions_cycle, past its gate.
InBody(t) ==
    pc[t] \in {"settings", "chats", "quota", "cooldown", "fetch", "backend",
               "insert", "wm", "wm_self", "record_failure"}

Watermark(c) == chats[c].last_seen_message_id
WatermarkAfter(c) == chats'[c].last_seen_message_id

\* C1: single-flight.  However the scheduler loop's run_once() and the
\* run-now tasks interleave, at most one cycle body is in progress.
SingleFlight == Cardinality({t \in Tasks : InBody(t)}) <= 1

\* A cycle in progress while another run_once() waits for the lock.
SingleFlightWitness == \E t, u \in Tasks : InBody(t) /\ pc[u] = "waiting"

\* C10: the precondition gate.  With the connector unauthenticated or the
\* backend unconfigured a cycle returns at once: it never gets into its
\* body, makes no call (settings read, thread listing, fetch, backend
\* request), creates no Suggestion and writes no watermark.
GateClosedNoop ==
    ~(authorized /\ enabled) =>
        /\ \A t \in Tasks : ~InBody(t) /\ calls[t] = {} /\ cyc[t] = NoLocals
        /\ suggestions = <<>>
        /\ \A c \in Threads : Watermark(c) = None

\* A cycle has returned at the gate although a selected thread has a
\* message waiting for a reply.
GateClosedNoopWitness ==
    /\ ~(authorized /\ enabled)
    /\ \E t \in Tasks : pc[t] = "release"
    /\ \E c \in Threads : chats[c].is_selected /\ inbox[c] # <<>>

\* The task takes a step of its cycle.
Moved(t) == pc'[t] # pc[t] \/ cyc'[t] # cyc[t]

\* The operations a cycle can make for a thread once it goes on with it.
ThreadWork == {"fetch", "suggest_reply", "insert_pending", "insert_failed", "set_last_seen"}

\* The cycle of t has made none of these operations for the i-th thread of its snapshot.
Untouched(t, i, ops) == \A op \in ops : <<op, cyc[t].chats[i].id>> \notin calls[t]

\* C2 as stated: in every state every thread has at most as many pending
\* Suggestions as the stored max_suggestions_per_chat.
QuotaInvariant ==
    \A c \in Threads : CountPending(c) <= settings.max_suggestions_per_chat

\* C2, amended: the quota is a gate at creation.  A thread's count of
\* pending Suggestions grows only by a cycle's insert, and stays within the
\* limit that cycle read at its start; the count gets above the stored limit
\* only by a settings save that lowers the limit, or by the insert of a
\* cycle that read a higher limit before such a save.
QuotaAtCreation ==
    [][\A c \in Threads :
        /\ CountPending(c)' > CountPending(c) =>
              \E t \in Tasks :
                  /\ pc[t] = "insert" /\ Cur(t).id = c
                  /\ CountPending(c)' <= cyc[t].settings.max_suggestions_per_chat
        /\ (/\ CountPending(c) <= settings.max_suggestions_per_chat
            /\ CountPending(c)' > settings'.max_suggestions_per_chat) =>
              \/ settings'.max_suggestions_per_chat < settings.max_suggestions_per_chat
              \/ \E t \in Tasks :
                    /\ pc[t] = "insert" /\ Cur(t).id = c
                    /\ cyc[t].settings.max_suggestions_per_chat
                         > settings.max_suggestions_per_chat
     ]_vars

\* Two pending Suggestions of one thread, created under a limit of 2, with
\* the stored limit back at 1.
QuotaAtCreationWitness ==
    \E c \in Threads :
        CountPending(c) = 2 /\ settings.max_suggestions_per_chat = 1

\* C5: the quota skip.  When a cycle examines a thread whose count of
\* pending Suggestions is at least the cycle's max_suggestions_per_chat, it
\* goes on to the next thread with the store as it was, and in the whole
\* cycle makes no fetch, no backend call, no insert (pending or failed) and
\* no watermark write for that thread.
QuotaSkip ==
    /\ [][\A t \in Tasks :
            (/\ pc[t] = "quota" /\ Moved(t) /\ pc'[t] # "record_failure"
             /\ CountPending(Cur(t).id) >= cyc[t].settings.max_suggestions_per_chat) =>
                /\ outcome'[t] = Append(outcome[t], "quota")
                /\ calls'[t] = calls[t] \cup {<<"count_pending", Cur(t).id>>}
                /\ UNCHANGED <<settings, chats, suggestions>>
         ]_vars
    /\ [](\A t \in Tasks : \A i \in 1..Len(outcome[t]) :
            outcome[t][i] = "quota" => Untouched(t, i, ThreadWork))

\* A cycle has skipped a thread on its quota and gone on.
QuotaSkipWitness ==
    \E t \in Tasks : \E i \in 1..Len(outcome[t]) :
        outcome[t][i] = "quota" /\ CountPending(cyc[t].chats[i].id) >= 1

\* C3 as stated: no step of the system lowers the stored watermark of a thread.
WatermarkMonotone ==
    [][\A c \in Threads : WatermarkAfter(c) >= Watermark(c)]_vars

\* C4: a cycle never lowers a watermark.  Every watermark write of a cycle
\* stores the cycle's latest_id, which is greater than the watermark of the
\* thread in the cycle's snapshot (or that one was unset); so if nobody else
\* wrote the watermark since the snapshot, the write does not lower it.  A
\* cycle writes no watermark at any other point, and no other thread's.
CycleAdvancesWatermark ==
    [][\A t \in Tasks : Moved(t) =>
          IF pc[t] \in {"wm", "wm_self"} /\ pc'[t] # "record_failure"
          THEN LET c == Cur(t).id
                   snapshot == Cur(t).last_seen_message_id
               IN  /\ WatermarkAfter(c) = cyc[t].latest_id
                   /\ snapshot = None \/ cyc[t].latest_id > snapshot
                   /\ Watermark(c) = snapshot => WatermarkAfter(c) >= Watermark(c)
                   /\ \A d \in Threads \ {c} : WatermarkAfter(d) = Watermark(d)
          ELSE \A d \in Threads : WatermarkAfter(d) = Watermark(d)
     ]_vars

\* A cycle has written the watermark of a thread that had one before.
CycleAdvancesWatermarkWitness ==
    \E t \in Tasks : \E i \in 1..Len(outcome[t]) :
        /\ outcome[t][i] \in {"pending", "self"}
        /\ cyc[t].chats[i].last_seen_message_id # None
        /\ Watermark(cyc[t].chats[i].id) > cyc[t].chats[i].last_seen_message_id

\* C7 as stated: when the newest message the fetch returns is the owner's,
\* the cycle goes on to write that message's id as the watermark without a
\* backend call, or leaves the thread with its watermark at that id.
OwnerSpokeLastFetched ==
    [][\A t \in Tasks :
        (pc[t] = "fetch" /\ Moved(t) /\ pc'[t] # "record_failure") =>
            LET messages == LastMessages(Cur(t).id, cyc[t].settings.k_messages)
                newest == messages[Len(messages)]
            IN  (messages # <<>> /\ newest.from_me) =>
                    \/ pc'[t] = "wm_self" /\ cyc'[t].latest_id = newest.id
                    \/ /\ outcome'[t] # outcome[t]
                       /\ Watermark(Cur(t).id) = newest.id
     ]_vars

\* C7, amended: the test is on the newest fetched message that has a text.
\* If that message is the owner's and newer than the watermark of the
\* cycle's snapshot (or that one was unset), the cycle makes no backend call
\* for the thread and writes the message's id as the watermark; when the
\* write succeeds, the cycle has created no Suggestion for the thread.
OwnerSpokeLastText ==
    /\ [][\A t \in Tasks :
            (pc[t] = "fetch" /\ Moved(t) /\ pc'[t] # "record_failure") =>
                LET messages == LastMessages(Cur(t).id, cyc[t].settings.k_messages)
                    texts == SelectSeq(messages, LAMBDA m : m.text # " ")
                    newest == texts[Len(texts)]
                    snapshot == Cur(t).last_seen_message_id
                IN  (/\ texts # <<>>
                     /\ newest.from_me
                     /\ snapshot = None \/ newest.id > snapshot) =>
                        /\ pc'[t] = "wm_self"
                        /\ cyc'[t].latest_id = newest.id
                        /\ UNCHANGED <<chats, suggestions>>
         ]_vars
    /\ [][\A t \in Tasks :
            (pc[t] = "wm_self" /\ Moved(t)) =>
                /\ UNCHANGED suggestions
                /\ pc'[t] # "record_failure" =>
                      /\ WatermarkAfter(Cur(t).id) = cyc[t].latest_id
                      /\ outcome'[t] = Append(outcome[t], "self")
         ]_vars
    /\ [](\A t \in Tasks :
            /\ pc[t] = "wm_self" =>
                  Untouched(t, cyc[t].idx, {"suggest_reply", "insert_pending", "insert_failed"})
            /\ \A i \in 1..Len(outcome[t]) :
                  outcome[t][i] = "self" =>
                      Untouched(t, i, {"suggest_reply", "insert_pending", "insert_failed"}))

\* The owner's text was followed by a message without text (a photo, a
\* sticker): a cycle has left the thread with the watermark at the text.
OwnerSpokeLastTextWitness ==
    \E t \in Tasks : \E i \in 1..Len(outcome[t]) :
        LET c == cyc[t].chats[i].id IN
        /\ outcome[t][i] = "self"
        /\ Len(inbox[c]) = 2
        /\ inbox[c][1].from_me /\ inbox[c][1].text = "hi"
        /\ inbox[c][2].text = " "
        /\ Watermark(c) = 1

\* The step takes the cycle of t from its current thread on to the next one
\* of its snapshot, or out of the loop after the last one.
GoesOn(t) ==
    /\ cyc'[t].chats = cyc[t].chats
    /\ cyc'[t].settings = cyc[t].settings
    /\ IF cyc[t].idx < Len(cyc[t].chats)
       THEN pc'[t] = "quota" /\ cyc'[t].idx = cyc[t].idx + 1
       ELSE pc'[t] = "release"

\* C6: the cooldown skip.  When a cycle with cooldown_minutes > 0 examines a
\* thread that has a Suggestion (of whatever status) created less than
\* cooldown_minutes ago, it goes on to the next thread with the store as it
\* was, and in the whole cycle makes no fetch, backend call, insert or
\* watermark write for the thread; otherwise the check lets the thread
\* through to the fetch, and with cooldown_minutes = 0 there is no check.
CooldownSkip ==
    /\ [][\A t \in Tasks :
            (pc[t] = "cooldown" /\ Moved(t) /\ pc'[t] # "record_failure") =>
                LET c == Cur(t).id
                    cooldown == cyc[t].settings.cooldown_minutes
                    young == \E i \in 1..Len(suggestions) :
                                /\ suggestions[i].chat = c
                                /\ now - suggestions[i].created < cooldown
                IN  IF cooldown > 0 /\ young
                    THEN /\ outcome'[t] = Append(outcome[t], "cooldown")
                         /\ calls'[t] = calls[t] \cup {<<"latest_created_at", c>>}
                         /\ GoesOn(t)
                         /\ UNCHANGED <<settings, chats, suggestions>>
                    ELSE pc'[t] = "fetch" /\ outcome'[t] = outcome[t]
         ]_vars
    /\ [][\A t \in Tasks :
            (/\ pc[t] = "quota" /\ Moved(t) /\ pc'[t] # "record_failure"
             /\ cyc[t].settings.cooldown_minutes = 0
             /\ CountPending(Cur(t).id) < cyc[t].settings.max_suggestions_per_chat) =>
                pc'[t] = "fetch" /\ outcome'[t] = outcome[t]
         ]_vars
    /\ [](\A t \in Tasks : \A i \in 1..Len(outcome[t]) :
            outcome[t][i] = "cooldown" =>
                /\ cyc[t].settings.cooldown_minutes > 0
                /\ Untouched(t, i, ThreadWork))

\* A cycle has skipped a thread in cooldown whose only Suggestion is a
\* failure record.
CooldownSkipWitness ==
    \E t \in Tasks : \E i \in 1..Len(outcome[t]) :
        /\ outcome[t][i] = "cooldown"
        /\ \E j \in 1..Len(suggestions) : suggestions[j].chat = cyc[t].chats[i].id
        /\ \A j \in 1..Len(suggestions) :
              suggestions[j].chat = cyc[t].chats[i].id => suggestions[j].status = "failed"

\* The rows of the suggestions table that belong to other threads than c.
OtherRows(rows, c) == SelectSeq(rows, LAMBDA r : r.chat # c)

\* C8: failure isolation.  An exception in the processing of a thread
\* changes nothing in the store and leaves the cycle in its loop; after the
\* failure is handled the cycle goes on to the next thread of its snapshot,
\* the rows and watermarks of the other threads being as they were; threads
\* are processed in snapshot order, and a cycle that got its snapshot ends
\* with every one of them processed.
FailureIsolation ==
    /\ [][\A t \in Tasks :
            (pc'[t] = "record_failure" /\ pc[t] # "record_failure") =>
                /\ cyc'[t].chats = cyc[t].chats
                /\ cyc'[t].idx = cyc[t].idx
                /\ cyc'[t].settings = cyc[t].settings
                /\ outcome'[t] = outcome[t]
                /\ UNCHANGED <<settings, chats, suggestions>>
         ]_vars
    /\ [][\A t \in Tasks :
            (pc[t] = "record_failure" /\ Moved(t)) =>
                /\ GoesOn(t)
                /\ Len(outcome'[t]) = Len(outcome[t]) + 1
                /\ OtherRows(suggestions', Cur(t).id) = OtherRows(suggestions, Cur(t).id)
                /\ UNCHANGED <<settings, chats>>
         ]_vars
    /\ [](\A t \in Tasks :
            /\ pc[t] \in {"quota", "cooldown", "fetch", "backend", "insert",
                           "wm", "wm_self", "record_failure"} =>
                  Len(outcome[t]) = cyc[t].idx - 1
            /\ (pc[t] = "release" /\ cyc[t].chats # <<>>) =>
                  Len(outcome[t]) = Len(cyc[t].chats))

\* A cycle is at its end: its first thread failed, its second thread got a
\* pending Suggestion.
FailureIsolationWitness ==
    \E t \in Tasks :
        /\ pc[t] = "release"
        /\ Len(outcome[t]) = 2
        /\ outcome[t][1] \in {"failed", "failed_unrecorded"}
        /\ outcome[t][2] = "pending"

\* The message of the exception the step at `at` raises.
MessageOf(at) ==
    CASE at = "fetch" -> "connector error"
      [] at = "backend" -> "backend error"
      [] OTHER -> "db error"

\* C9: the failure record.  The handler of a thread's exception inserts a
\* Suggestion with status failed, no source messages, empty text and
\* translation, and the exception's message as error; or, if that insert
\* raises, it records nothing.  Either way the cycle goes on to the next
\* thread.
FailureRecord ==
    /\ [][\A t \in Tasks :
            (pc'[t] = "record_failure" /\ pc[t] # "record_failure") =>
                cyc'[t].err = MessageOf(pc[t])
         ]_vars
    /\ [][\A t \in Tasks :
            (pc[t] = "record_failure" /\ Moved(t)) =>
                /\ GoesOn(t)
                /\ \/ /\ suggestions' = Append(suggestions,
                              [chat |-> Cur(t).id, created |-> now, source |-> <<>>,
                               suggested_text |-> "", ru_translation |-> "",
                               status |-> "failed", error |-> cyc[t].err])
                      /\ outcome'[t] = Append(outcome[t], "failed")
                   \/ /\ suggestions' = suggestions
                      /\ outcome'[t] = Append(outcome[t], "failed_unrecorded")
         ]_vars

\* A failure of the backend is on record, and the cycle has gone on.
FailureRecordWitness ==
    \E t \in Tasks : \E i \in 1..Len(outcome[t]) :
        /\ outcome[t][i] = "failed"
        /\ \E j \in 1..Len(suggestions) :
              /\ suggestions[j].chat = cyc[t].chats[i].id
              /\ suggestions[j].status = "failed"
              /\ suggestions[j].error = "backend error"
              /\ suggestions[j].source = <<>>

\* The loop task stands in run_once(): it waits for the lock or runs a cycle.
InRunOnce(t) == pc[t] \in {"waiting", "release"} \/ InBody(t)

\* C11 as stated: the first cycle after start() runs promptly, on the wake
\* signalled by start().  While the loop is in its first timed wait and no
\* wake() was called during it, the wake signal is set, so that the wait
\* ends at once and not by its timeout.
PromptFirstCycle ==
    (pc[LoopTask] = "sleep" /\ sched.first /\ sched.wakes = 0) => sched.wakeup

\* The loop task takes a step of its own (a cancellation is not one).
LoopStep == pc'[LoopTask] # pc[LoopTask] /\ pc'[LoopTask] # "cancelled"

\* C12: wake collapsing.  The wake signal is one set/clear slot: during a
\* timed wait it is set exactly if at least one wake() was called during
\* that wait, whatever their number.  The wait ends once, into one
\* run_once(); after that run_once() the loop reads the settings and begins
\* its next wait with the signal clear, so the wake() calls of one wait
\* cause one cycle.
WakeCollapses ==
    /\ [](sched.wakeup \in BOOLEAN)
    /\ [](pc[LoopTask] = "sleep" => (sched.wakeup <=> sched.wakes >= 1))
    /\ [][(pc[LoopTask] = "sleep" /\ LoopStep) => InRunOnce(LoopTask)']_vars
    /\ [][(pc[LoopTask] = "release" /\ LoopStep) => pc'[LoopTask] = "wait_settings"]_vars
    /\ [][(pc[LoopTask] = "wait_settings" /\ LoopStep) =>
            pc'[LoopTask] = "sleep" /\ ~sched'.wakeup /\ sched'.wakes = 0]_vars

\* Two wake() calls were made during one wait of the loop.
WakeCollapsesWitness ==
    pc[LoopTask] = "sleep" /\ sched.wakes = 2 /\ sched.wakeup

\* C13: every run_once() runs a cycle of its own.  A caller that waits for
\* the lock has read nothing; it gets the lock; settings and selected
\* threads are read by the lock's holder, from the store as it is then; and
\* with the gate open a run_once() reaches its end only after its own
\* settings read, and then returns.
OwnFreshCycle ==
    /\ [](\A t \in Tasks : pc[t] = "waiting" => calls[t] = {} /\ cyc[t] = NoLocals)
    /\ [](\A t \in Tasks : InBody(t) => lock_owner = t)
    /\ [](\A t \in Tasks :
            (pc[t] = "release" /\ GateOpen) => <<"get_settings", 0>> \in calls[t])
    /\ [][\A t \in Tasks :
            /\ (pc[t] = "settings" /\ pc'[t] = "chats") => cyc'[t].settings = settings
            /\ (pc[t] = "chats" /\ pc'[t] \notin {"chats", "cancelled"}) =>
                   cyc'[t].chats = SelectedChats \/ pc'[t] = "release"
            /\ (pc[t] = "release" /\ Moved(t)) => pc'[t] = IdlePc(t)
         ]_vars
    /\ \A t \in Tasks : (pc[t] = "waiting") ~> (lock_owner = t)
    /\ \A t \in Tasks : InRunOnce(t) ~> (pc[t] = IdlePc(t))

\* A run_once() has run its own cycle to the end while another call waits
\* for the lock.
OwnFreshCycleWitness ==
    \E t, u \in Tasks :
        /\ pc[t] = "release" /\ <<"get_settings", 0>> \in calls[t] /\ cyc[t].chats # <<>>
        /\ pc[u] = "waiting"

\* The loop task is not there, or has finished.
LoopOver == pc[LoopTask] \in {"none", "done"}

\* C14: stop() terminates, wherever the loop stands when it is called, and
\* it returns only when the loop task has finished.  A finished loop holds
\* no lock, waits for none and is in no cycle, and it stays finished unless
\* start() is called.
StopTerminates ==
    /\ [](LoopOver =>
            /\ lock_owner # LoopTask
            /\ \A i \in 1..Len(lock_waiters) : lock_waiters[i] # LoopTask
            /\ calls[LoopTask] = {} /\ cyc[LoopTask] = NoLocals)
    /\ [][(sched.stopping /\ ~sched'.stopping) =>
            pc[LoopTask] = "done" /\ pc'[LoopTask] = "none" /\ ~sched'.task]_vars
    /\ [][(LoopOver /\ ~LoopOver') =>
            ~sched.task /\ sched'.task /\ pc'[LoopTask] = "created"]_vars
    /\ sched.stopping ~> (~sched.stopping /\ pc[LoopTask] = "none")

\* A stop() called while the loop's cycle awaited the backend has returned.
StopTerminatesWitness ==
    sched.stopped /\ ~sched.task /\ sched.at = "backend" /\ pc[LoopTask] = "none"

\* C15 as stated: Stopped is terminal.  Once a stop() has completed there
\* is no loop task any more.
StoppedTerminal == sched.stopped => pc[LoopTask] = "none"

\* C15, amended: Stopped lasts until the next start().  After a stop() has
\* completed, and as long as start() is not called, there is no loop task
\* and the stop flag stays set, whatever else is called (wake(), settings
\* saves, run-now); a start() clears the stop flag, signals a wake and
\* creates a new loop task, which runs cycles again.
StoppedUntilStart ==
    /\ []((sched.stopped /\ ~sched.task) => (pc[LoopTask] = "none" /\ sched.stop))
    /\ [][(sched.stopped /\ ~sched.task /\ (sched'.task \/ pc'[LoopTask] # "none")) =>
            /\ sched'.task /\ ~sched'.stop /\ sched'.wakeup
            /\ pc'[LoopTask] = "created"
            /\ UNCHANGED <<settings, chats, suggestions, inbox, lock, cyc, calls, outcome>>
         ]_vars
    /\ [](sched.task /\ ~sched.stopping => ~sched.stop)

\* After a stop() has completed, a start() has made the loop run a cycle.
StoppedUntilStartWitness ==
    sched.stopped /\ sched.task /\ InBody(LoopTask)

\* C16: an exception of an iteration does not end the loop.  When the
\* settings read of _maybe_wait raises, the loop stands at the next
\* iteration's settings read; when the cycle raises out of run_once(), the
\* loop goes on to the next iteration as after a cycle that returned.  The
\* loop task ends by the cancellation of a stop() only.
LoopSurvives ==
    /\ [][(pc[LoopTask] = "wait_settings" /\ sched'.erred /\ ~sched.erred) =>
            pc'[LoopTask] = "wait_settings"]_vars
    /\ [][(pc[LoopTask] = "release" /\ cyc[LoopTask].err # "" /\ LoopStep) =>
            pc'[LoopTask] = "wait_settings"]_vars
    /\ [][(~LoopOver /\ LoopOver') => (sched.stop /\ pc[LoopTask] = "cancelled")]_vars
    /\ [](pc[LoopTask] = "done" => sched.stop)
    /\ []((sched.erred /\ sched.task /\ ~sched.stop) => ~LoopOver)

\* The loop caught an exception of its settings read, went on, and the
\* cycle of a later iteration has raised.
LoopSurvivesWitness ==
    sched.erred /\ pc[LoopTask] = "release" /\ cyc[LoopTask].err # ""

\* The request_json call in progress, and whether it has ended.
Call == req.call
Ended == Call.pc \in {"returned", "raised"}

\* C17: the retry budget.  A request_json call makes at most max_retries+1
\* attempts.  A call that raises a transient error has made exactly
\* max_retries+1 attempts, every one of them failed, and the error is that
\* of the last attempt.  A call that returns has made one attempt more than
\* it had failures, the successful one being the last: after it the call
\* makes no further attempt.
RetryBudget ==
    /\ [](Call.sent <= req.max_retries + 1 /\ Call.attempt <= req.max_retries)
    /\ []((Call.pc = "raised" /\ Call.error \in TransientErrors) =>
            /\ Call.sent = req.max_retries + 1
            /\ Len(Call.errs) = req.max_retries + 1
            /\ Call.error = Call.errs[Len(Call.errs)])
    /\ [](Call.pc = "returned" =>
            Call.result = "json" /\ Call.sent = Len(Call.errs) + 1)
    /\ [][(Ended /\ req' # req) => req'.call = NoRequest]_vars
    /\ [][(Call.pc = "sleep" /\ Len(Call.errs) = req.max_retries + 1 /\ req' # req) =>
            req'.call.pc = "raised" /\ req'.call.sent = Call.sent]_vars

\* With max_retries = 2, three attempts have failed with three different
\* transient errors and the call has raised the last of them.
RetryBudgetWitness ==
    /\ req.max_retries = 2
    /\ Call.pc = "raised" /\ Call.sent = 3 /\ Call.error = "ValueError"
    /\ Call.errs = <<"RateLimitError", "APITimeoutError", "ValueError">>

\* C18: backoff on eventual success.  A call that returns after k failed
\* attempts has k <= max_retries, has slept exactly k times, the i-th time
\* (i = 0..k-1) for min(8, 2^i) seconds, and returns the result of attempt
\* k+1.
BackoffOnSuccess ==
    Call.pc = "returned" =>
        /\ Call.result = "json"
        /\ Len(Call.errs) <= req.max_retries
        /\ Len(Call.delays) = Len(Call.errs)
        /\ \A i \in 0..(Len(Call.delays) - 1) :
              /\ Call.delays[i + 1] = (IF 2^i <= 8 THEN 2^i ELSE 8)
              /\ Call.delays[i + 1] <= 8

\* A call has returned after five failed attempts: the fifth delay, 2^4
\* seconds uncapped, was of 8 seconds.
BackoffOnSuccessWitness ==
    Call.pc = "returned" /\ Call.delays = <<1, 2, 4, 8, 8>>

\* C19 as stated: delays happen between two attempts only.  No backoff
\* sleep follows the last attempt the budget allows, and a call that raises
\* after max_retries+1 failed attempts has slept exactly max_retries times.
NoDelayAfterLastAttempt ==
    /\ Call.pc = "sleep" => Call.attempt < req.max_retries
    /\ (Call.pc = "raised" /\ Len(Call.errs) = req.max_retries + 1) =>
           Len(Call.delays) = req.max_retries

\* C20: an unconfigured client fails at once.  Without credentials a
\* request_json call raises the configuration error as its first step, has
\* sent no request and slept no delay, whatever max_retries is.
UnconfiguredFailsAtOnce ==
    /\ [](~enabled =>
            /\ Call.pc \in {"idle", "raised"}
            /\ Call.sent = 0 /\ Call.delays = <<>> /\ Call.errs = <<>>)
    /\ []((~enabled /\ Call.pc = "raised") => Call.error = "OpenAI is not configured")
    /\ [][(~enabled /\ Call.pc = "idle" /\ req' # req) => req'.call.pc = "raised"]_vars

\* The call of an unconfigured client with the largest max_retries has raised.
UnconfiguredFailsAtOnceWitness ==
    ~enabled /\ Call.pc = "raised" /\ req.max_retries = MaxRetries

\* The parameters of the request in flight are wrong in the token-budget
\* parameter's name only.
WrongTokenName ==
    /\ Call.kwargs.token # req.backend.token
    /\ Call.kwargs.temperature => req.backend.temperature

\* C21: token-parameter negotiation.  When the first request of an attempt
\* is rejected for the name of its token-budget parameter, the next step of
\* the call is the same request sent again under the other name, the one
\* the backend takes, within the same attempt and with no delay; an attempt
\* re-sends at most once; and when the re-sent request is one the backend
\* takes, the call returns its result with no error, no failed attempt and
\* no delay on record.
TokenNegotiation ==
    /\ [](Call.resent <= 1)
    /\ [][(Call.pc = "attempt" /\ WrongTokenName /\ req' # req) =>
            /\ req'.call.pc = "resend" /\ req'.call.resent = 1
            /\ req'.call.kwargs.token = req.backend.token
            /\ req'.call.kwargs.token # Call.kwargs.token
            /\ req'.call.kwargs.temperature = Call.kwargs.temperature
            /\ req'.call.http = Call.http + 1
            /\ req'.call.attempt = Call.attempt /\ req'.call.sent = Call.sent
            /\ req'.call.delays = Call.delays /\ req'.call.errs = Call.errs
         ]_vars
    /\ [][(Call.pc = "resend" /\ Accepts(Call.kwargs) /\ req' # req) =>
            /\ req'.call.pc = "returned" /\ req'.call.result = "json"
            /\ req'.call.error = ""
            /\ req'.call.http = Call.http
            /\ req'.call.attempt = Call.attempt /\ req'.call.sent = Call.sent
            /\ req'.call.delays = Call.delays /\ req'.call.errs = Call.errs
         ]_vars

\* The first attempt of a call sent max_tokens, was rejected, sent
\* max_completion_tokens and the call has returned.
TokenNegotiationWitness ==
    /\ Call.pc = "returned" /\ Call.resent = 1 /\ Call.http = 2
    /\ Call.attempt = 0 /\ Call.errs = <<>> /\ Call.delays = <<>>
    /\ ~req.gpt5 /\ Call.kwargs.token = "max_completion_tokens"

\* C22 as stated: the corrections of the negotiation are transparent.  With
\* a backend that answers every request whose parameters it takes, no
\* request_json call of a configured client raises, and none has a failed
\* attempt, whatever max_retries is and whichever corrections the model
\* needs.
CorrectionsTransparent ==
    enabled => (Call.pc # "raised" /\ Call.errs = <<>>)

\* The qualifying entries of a source list (positions from 1, oldest first)
\* and the score the selector is to give the entry at a position.
Qualifying(src) == {i \in 1..Len(src) : src[i].from_me = FALSE /\ src[i].id > 0}

Trimmed(i, src) == Strip(Chars(src[i].text))

Points(i, src) ==
    (i - 1)
    + (IF \E k \in 1..Len(Chars(src[i].text)) : Chars(src[i].text)[k] \in QuestionMarks
       THEN 50 ELSE 0)
    - (IF Len(Trimmed(i, src)) < 3 THEN 25 ELSE 0)
    - (IF \A k \in 1..Len(Chars(src[i].text)) : Chars(src[i].text)[k] \notin WordChars
       THEN 25 ELSE 0)

HiFree == <<[id |-> 1, from_me |-> FALSE, text |-> "hi"],
            [id |-> 2, from_me |-> FALSE, text |-> "are you free?"]>>

OkDot == <<[id |-> 1, from_me |-> FALSE, text |-> "ok"],
           [id |-> 2, from_me |-> FALSE, text |-> "."]>>

\* The send-as-reply handler has just chosen for row sid.
Chose(sid) ==
    /\ disp.pc = "idle"
    /\ disp'.pc \in {"fallback", "mark_failed"}
    /\ disp'.sid = sid

\* C23: over any stored source list the selector returns the id of a
\* qualifying entry (not from the owner, id > 0) whose score (position from
\* the oldest, +50 for a question mark, -25 for a trimmed text shorter than 3,
\* -25 for no word character) is maximal among the qualifying entries; it
\* returns no target exactly when no entry qualifies, and then the handler
\* goes on as the plain send; [hi, are you free?] gives id 2, [ok, .] id 1.
SelectorResult ==
    [][/\ \A sid \in 1..Len(suggestions) :
            Chose(sid) =>
                LET src == suggestions[sid].source
                    target == disp'.reply_to
                IN  /\ (target = None) <=> (Qualifying(src) = {})
                    /\ (target = None) <=> (disp'.pc = "fallback")
                    /\ target # None =>
                           \E i \in Qualifying(src) :
                               /\ src[i].id = target
                               /\ \A j \in Qualifying(src) : Points(j, src) <= Points(i, src)
                    /\ src = HiFree => target = 2
                    /\ src = OkDot => target = 1
       /\ (disp.pc = "fallback" /\ suggestions[disp.sid].status = "pending")
              => (disp'.pc = "sending" /\ disp'.reply_to = None)
       /\ (disp.pc = "sending" /\ inbox' # inbox)
              => disp.reply_to = None
      ]_vars

SelectorResultWitness ==
    /\ suggestions[1].source = OkDot
    /\ disp.pc = "mark_failed"
    /\ disp.reply_to = 1

\* The qualifying entries of maximal score.
Best(src) ==
    {i \in Qualifying(src) : \A j \in Qualifying(src) : Points(j, src) <= Points(i, src)}

\* The list of the example: a question at index 0 and a plain text at index
\* 50, both of score 50.
QuestionThenPlain ==
    Between([text |-> "are you free?", from_me |-> FALSE, id |-> TRUE], 49,
            [text |-> "hey", from_me |-> FALSE, id |-> TRUE])

\* C24 as stated: of several qualifying entries of the same maximal score the
\* selector returns the one that comes latest in the list.
TieLatestWins ==
    [][\A sid \in 1..Len(suggestions) :
          (Chose(sid) /\ disp'.reply_to # None) =>
              LET src == suggestions[sid].source IN
              \E i \in Best(src) :
                  /\ src[i].id = disp'.reply_to
                  /\ \A j \in Best(src) : j <= i
      ]_vars

\* C24: of several qualifying entries of the same maximal score the selector
\* returns the one that comes earliest in the list (oldest first); a later
\* entry replaces the choice only with a strictly greater score.
TieEarliestWins ==
    [][\A sid \in 1..Len(suggestions) :
          (Chose(sid) /\ disp'.reply_to # None) =>
              LET src == suggestions[sid].source IN
              \E i \in Best(src) :
                  /\ src[i].id = disp'.reply_to
                  /\ \A j \in Best(src) : i <= j
      ]_vars

TieEarliestWinsWitness ==
    /\ suggestions[1].source = QuestionThenPlain
    /\ Best(suggestions[1].source) = {1, 51}
    /\ disp.pc = "mark_failed"
    /\ disp.reply_to = 1

\* C25 as stated: a status changes only from pending, and the rows a cycle
\* leaves behind are the rows it found (a cycle only appends).
StatusOnlyFromPending ==
    [][\A sid \in 1..Len(suggestions) :
          /\ sid <= Len(suggestions')
          /\ suggestions[sid].status # "pending"
                 => suggestions'[sid].status = suggestions[sid].status
          /\ (\E t \in Tasks : pc'[t] # pc[t]) => suggestions'[sid] = suggestions[sid]
      ]_vars

\* The threads whose watermark a step changes.
WatermarkMoved ==
    {c \in Threads : chats'[c].last_seen_message_id # chats[c].last_seen_message_id}

\* A cycle's watermark write for thread c.
CycleWrites(c) ==
    \E t \in Tasks :
        /\ pc[t] \in {"wm", "wm_self"}
        /\ pc'[t] # pc[t]
        /\ Cur(t).id = c

\* The send handler's watermark write for thread c.
SendWrites(c) ==
    /\ disp.pc = "wm"
    /\ disp'.pc = "mark_sent"
    /\ suggestions[disp.sid].chat = c

\* C26 as stated: only a cycle writes a thread's last_seen_message_id.
OnlyCycleWritesWatermark ==
    [][\A c \in WatermarkMoved : CycleWrites(c)]_vars

\* C26: a thread's last_seen_message_id is written by a cycle and by a
\* send that delivered the message (to the id of the sent message), and by
\* nothing else: decline, a send-as-reply that finds a reply target, thread
\* selection, thread sync and a settings save leave every watermark unchanged.
WatermarkWriters ==
    [][\A c \in WatermarkMoved :
          \/ CycleWrites(c)
          \/ /\ SendWrites(c)
             /\ disp.reply_to = None
             /\ chats'[c].last_seen_message_id = disp.msg_id
             /\ inbox[c][disp.msg_id].from_me
      ]_vars

WatermarkWritersWitness ==
    /\ disp.pc = "mark_sent"
    /\ chats[suggestions[disp.sid].chat].last_seen_message_id = disp.msg_id
    /\ \E sid \in 1..Len(suggestions) : suggestions[sid].status = "declined"

\* Where a cycle stands while it works on a thread of its snapshot.
ThreadPcs == {"quota", "cooldown", "fetch", "backend", "insert", "wm", "wm_self",
              "record_failure"}

Ids(snapshot) == [i \in 1..Len(snapshot) |-> snapshot[i].id]

Processed(c) ==
    \E sid \in 1..Len(suggestions) :
        /\ suggestions[sid].chat = c
        /\ suggestions[sid].source # <<>>
        /\ LatestId(SourceOf(inbox[c])) <= LatestId(suggestions[sid].source)

\* C28: once a cycle has made a Suggestion for a thread and written its
\* watermark, and the connector holds no newer message, a later cycle that
\* fetches the thread's messages skips it: no backend call, no Suggestion,
\* no watermark write.
DedupIdempotent ==
    [][\A t \in Tasks :
          (pc[t] = "fetch" /\ Processed(Cur(t).id))
              => pc'[t] \notin {"backend", "wm_self"}
      ]_vars

\* The fetched messages of thread c that have a text, oldest first, as a
\* cycle with a window of k messages is to store them.
TextsOf(c, k) ==
    LET texts == SelectSeq(LastMessages(c, k), LAMBDA m : m.text # " ") IN
    [i \in 1..Len(texts) |->
        [id |-> texts[i].id, from_me |-> texts[i].from_me, text |-> texts[i].text]]

\* C29: for a thread past quota, cooldown and deduplication whose newest
\* text message is not the owner's, the cycle keeps exactly the fetched
\* messages that have a text, oldest first; when the backend call and the
\* writes succeed it appends one pending Suggestion with these messages as
\* source, then writes their greatest id as the thread's watermark, and
\* creates nothing else for the thread.
GenerationSucceeds ==
    /\ [][\A t \in Tasks :
            (pc[t] = "fetch" /\ pc'[t] = "backend") =>
                /\ cyc'[t].source = TextsOf(Cur(t).id, cyc[t].settings.k_messages)
                /\ ~cyc'[t].source[Len(cyc'[t].source)].from_me
                /\ \A i \in 1..Len(cyc'[t].source) : cyc'[t].source[i].id <= cyc'[t].latest_id
                /\ \E i \in 1..Len(cyc'[t].source) : cyc'[t].source[i].id = cyc'[t].latest_id
                /\ UNCHANGED <<suggestions, chats>>
         ]_vars
    /\ [][\A t \in Tasks :
            (pc[t] = "backend" /\ Moved(t)) =>
                /\ UNCHANGED <<suggestions, chats>>
                /\ pc'[t] = "insert" => cyc'[t] = cyc[t]
         ]_vars
    /\ [][\A t \in Tasks :
            (pc[t] = "insert" /\ pc'[t] = "wm") =>
                /\ suggestions' = Append(suggestions,
                       [chat |-> Cur(t).id, created |-> now, source |-> cyc[t].source,
                        suggested_text |-> "reply", ru_translation |-> "otvet",
                        status |-> "pending", error |-> ""])
                /\ cyc'[t] = cyc[t]
                /\ UNCHANGED chats
         ]_vars
    /\ [][\A t \in Tasks :
            (pc[t] = "wm" /\ Moved(t) /\ pc'[t] # "record_failure") =>
                /\ WatermarkAfter(Cur(t).id) = cyc[t].latest_id
                /\ outcome'[t] = Append(outcome[t], "pending")
                /\ UNCHANGED suggestions
         ]_vars

\* A cycle has just finished a thread with a pending Suggestion whose source
\* leaves out a fetched message without text.
GenerationSucceedsWitness ==
    \E t \in Tasks :
        /\ outcome[t] # <<>>
        /\ outcome[t][Len(outcome[t])] = "pending"
        /\ \E sid \in 1..Len(suggestions) :
              LET c == suggestions[sid].chat IN
              /\ suggestions[sid].status = "pending"
              /\ Len(suggestions[sid].source) = 1
              /\ Len(inbox[c]) = 2
              /\ inbox[c][1].text = " "
              /\ suggestions[sid].source[1].id = 2
              /\ Watermark(c) = LatestId(suggestions[sid].source)
              /\ <<"insert_pending", c>> \in calls[t]

\* No run-now cycle stands between its insert and its watermark write for
\* thread c.
NoWriteDue(c) ==
    \A t \in ManualTasks : ~(pc[t] = "wm" /\ Cur(t).id = c)

\* C30 as stated: when the loop task has been cancelled by stop(), no thread
\* is left half-processed: every pending Suggestion made from a thread's
\* messages has its watermark advance in effect as well.
StopNeverSplits ==
    (sched.stopping /\ pc[LoopTask] = "done") =>
        \A sid \in 1..Len(suggestions) :
            LET c == suggestions[sid].chat IN
            (suggestions[sid].status = "pending" /\ NoWriteDue(c)) =>
                /\ Watermark(c) # None
                /\ Watermark(c) >= LatestId(suggestions[sid].source)

\* C31 as stated: the cached choice of the token parameter name.  A backend
\* that takes one fixed name rejects the name a client sends at most once
\* in the life of the client: after the rejection the client has the other
\* name cached and sends it first in every later attempt and call.
NameRejectedOnce ==
    req.name_rejected <= 1

\* The parameters of the request in flight are wrong in the temperature
\* only.
WrongTemperature ==
    /\ Call.kwargs.token = req.backend.token
    /\ Call.kwargs.temperature /\ ~req.backend.temperature

\* C32: temperature negotiation.  No request for a model of the gpt-5
\* family carries a temperature.  For any other model, when the first
\* request of an attempt is rejected for its temperature, the next step of
\* the call is the same request sent again without the temperature and
\* under the same token parameter name, within the same attempt and with
\* no delay; an attempt re-sends at most once; and when the request sent
\* again without temperature is one the backend takes, the call returns
\* its result with no error, no failed attempt and no delay on record.
TemperatureNegotiation ==
    /\ [](req.gpt5 => ~Call.kwargs.temperature)
    /\ [](Call.resent <= 1)
    /\ [][(Call.pc = "attempt" /\ WrongTemperature /\ req' # req) =>
            /\ req'.call.pc = "resend" /\ req'.call.resent = 1
            /\ ~req'.call.kwargs.temperature
            /\ req'.call.kwargs.token = Call.kwargs.token
            /\ req'.token_param = req.token_param
            /\ req'.call.http = Call.http + 1
            /\ req'.call.attempt = Call.attempt /\ req'.call.sent = Call.sent
            /\ req'.call.delays = Call.delays /\ req'.call.errs = Call.errs
         ]_vars
    /\ [][(Call.pc = "attempt" /\ Call.kwargs.temperature
              /\ req'.call.pc = "resend" /\ ~req'.call.kwargs.temperature) =>
            /\ req'.call.kwargs.token = Call.kwargs.token
            /\ req'.call.resent = 1 /\ req'.call.http = Call.http + 1
            /\ req'.call.attempt = Call.attempt /\ req'.call.sent = Call.sent
         ]_vars
    /\ [][(Call.pc = "resend" /\ ~req.gpt5 /\ ~Call.kwargs.temperature
              /\ Accepts(Call.kwargs) /\ req' # req) =>
            /\ req'.call.pc = "returned" /\ req'.call.result = "json"
            /\ req'.call.error = ""
            /\ req'.call.http = Call.http
            /\ req'.call.attempt = Call.attempt /\ req'.call.sent = Call.sent
            /\ req'.call.delays = Call.delays /\ req'.call.errs = Call.errs
         ]_vars

\* The first attempt of a call sent max_tokens and a temperature to a
\* backend that takes the default temperature only, was rejected, sent
\* max_tokens without temperature and the call has returned.
TemperatureNegotiationWitness ==
    /\ Call.pc = "returned" /\ Call.resent = 1 /\ Call.http = 2
    /\ Call.attempt = 0 /\ Call.errs = <<>> /\ Call.delays = <<>>
    /\ ~req.gpt5 /\ ~req.backend.temperature
    /\ Call.kwargs = [token |-> "max_tokens", temperature |-> FALSE]

\* The create calls a request_json call may make.
TrafficBound == 2 * (req.max_retries + 1)

\* C40: bounded backend traffic per call.  A request_json call makes at
\* most 2 * (max_retries + 1) create calls: every attempt makes one and at
\* most one more, the re-send after a correction; a correction changes the
\* token parameter name or drops the temperature, never both; and when the
\* backend rejects the re-sent request the attempt has failed, with no
\* further create call.
BoundedTraffic ==
    /\ [](Call.http <= TrafficBound)
    /\ [](Call.sent <= req.max_retries + 1 /\ Call.http <= 2 * Call.sent)
    /\ [](Call.resent <= 1)
    /\ [][(Call.pc = "attempt" /\ req'.call.pc = "resend") =>
            /\ req'.call.http = Call.http + 1 /\ req'.call.sent = Call.sent
            /\ (req'.call.kwargs.token # Call.kwargs.token)
                   # (req'.call.kwargs.temperature # Call.kwargs.temperature)
         ]_vars
    /\ [][(Call.pc = "resend" /\ req' # req) =>
            /\ req'.call.http = Call.http /\ req'.call.sent = Call.sent
            /\ req'.call.pc \in {"returned", "sleep", "raised"}
            /\ ~Accepts(Call.kwargs) => req'.call.pc # "returned"
            /\ req'.call.last_err # Call.last_err \/ req'.call.pc = "sleep" =>
                  /\ req'.call.pc = "sleep"
                  /\ Len(req'.call.errs) = Len(Call.errs) + 1
                  /\ req'.call.last_err = req'.call.errs[Len(req'.call.errs)]
         ]_vars

\* A call of a client with max_retries = 2 has raised after three
\* attempts of two create calls each.
BoundedTrafficWitness ==
    /\ Call.pc = "raised" /\ req.max_retries = 2
    /\ Call.sent = 3 /\ Call.http = 6 /\ Call.resent = 1
    /\ Call.errs = <<"BadRequestError", "BadRequestError", "BadRequestError">>

\* The reply the current attempt has received, and what is to be made of
\* it: it is blank when there is no content or only white space in it; it
\* holds a value when its content is a JSON object with both texts of
\* ReplySuggestion in it, neither of them empty.
Reply == Call.reply[1]

Blank(r) == r.content = NoContent \/ r.content = "" \/ r.content = " "

IsJson(r) == r.content = "json"

SchemaOk(r) ==
    /\ r.doc.suggested_text = "ok"
    /\ r.doc.ru_translation = "ok"

FailureKind(r) ==
    CASE Blank(r) /\ r.refusal = "policy" -> RefusalError
      [] Blank(r) /\ r.refusal = "" -> EmptyError
      [] ~Blank(r) /\ ~IsJson(r) -> "JSONDecodeError"
      [] IsJson(r) /\ ~SchemaOk(r) -> ValidationError
      [] OTHER -> ""

\* C33: the outcomes of the response validation.  A reply that is blank
\* raises the refusal error when it has a refusal reason and the
\* empty-response error when it has none; a reply that is not blank gives
\* a value only if it is JSON and satisfies the schema, and raises the
\* parse error or the validation error otherwise.  Each of the four
\* errors is caught by request_json: the attempt is on record as failed
\* with that error, the call neither returns nor raises at that point, and
\* after the backoff the next attempt is made while attempts remain.
ValidationOutcomes ==
    /\ [](Call.reply # <<>> =>
            /\ Call.pc \in {"returned", "sleep", "raised"}
            /\ Call.pc = "returned" <=> IsJson(Reply) /\ SchemaOk(Reply)
            /\ Call.pc = "raised" =>
                  Call.attempt = req.max_retries /\ Call.error = FailureKind(Reply)
            /\ Call.pc = "returned" =>
                  Call.result = "json" /\ Len(Call.errs) = Call.attempt
            /\ Call.pc # "returned" =>
                  /\ FailureKind(Reply) # ""
                  /\ Call.last_err = FailureKind(Reply)
                  /\ Len(Call.errs) = Call.attempt + 1
                  /\ Call.errs[Call.attempt + 1] = FailureKind(Reply)
                  /\ Call.sent = Call.attempt + 1)
    /\ [][(Call.reply # <<>> /\ Call.pc = "sleep" /\ req' # req) =>
            IF Call.attempt < req.max_retries
            THEN /\ req'.call.pc = "attempt"
                 /\ req'.call.attempt = Call.attempt + 1
                 /\ req'.call.sent = Call.sent + 1
            ELSE /\ req'.call.pc = "raised"
                 /\ req'.call.error = FailureKind(Reply)
         ]_vars

\* A call of a client with max_retries = 3 whose four attempts so far
\* have failed with the refusal, the empty-response, the parse and the
\* validation error, in this order.
ValidationOutcomesWitness ==
    /\ req.max_retries = 3 /\ Call.pc = "sleep"
    /\ Call.errs = <<RefusalError, EmptyError, "JSONDecodeError", ValidationError>>
    /\ Reply = [content |-> "json", refusal |-> "policy",
                doc |-> [suggested_text |-> "ok", ru_translation |-> ""]]

\* C35 as stated: send-as-reply succeeds.  With a connector whose send
\* operation succeeds, a Suggestion with a non-empty suggested text and a
\* source list that has a qualifying entry is never marked failed by the
\* send-as-reply handler: its text is sent as a reply and it becomes sent.
ReplySendSucceeds ==
    \A sid \in 1..Len(suggestions) :
        (/\ Qualifying(suggestions[sid].source) # {}
         /\ MessageText(suggestions[sid].suggested_text) # "")
            => suggestions[sid].status # "failed"

\* C38 as stated: a cycle creates at most one Suggestion per thread.  No
\* cycle has inserted both a pending and a failed Suggestion for one
\* thread, whichever of its awaited calls fail.
OneRecordPerThread ==
    \A t \in Tasks, c \in Threads :
        ~(<<"insert_pending", c>> \in calls[t] /\ <<"insert_failed", c>> \in calls[t])

\* The rows of thread c in a status.
RowsOf(c, status) ==
    {sid \in 1..Len(suggestions) :
        suggestions[sid].chat = c /\ suggestions[sid].status = status}

RowsAfter(c, status) ==
    {sid \in 1..Len(suggestions') :
        suggestions'[sid].chat = c /\ suggestions'[sid].status = status}

\* The awaited calls of a thread's processing that come before the
\* watermark write.
BeforeWrite == {"quota", "cooldown", "fetch", "backend", "insert"}

\* The connector has a text message of thread c that is newer than the
\* thread's watermark.
NewText(c, k) ==
    /\ TextsOf(c, k) # <<>>
    /\ Watermark(c) = None \/ TextsOf(c, k)[Len(TextsOf(c, k))].id > Watermark(c)

\* C39: a per-thread failure never advances the watermark.  When one of
\* the calls before the watermark write raises, the cycle changes neither
\* the watermark nor the rows at that step, records the failure with at
\* most one failed Suggestion of that thread and no pending one, leaving
\* the watermark as it is, and makes no watermark write for the thread in
\* that cycle.  Failed Suggestions do not count toward the quota: a cycle
\* goes on past the quota check exactly when the thread's pending
\* Suggestions are fewer than the limit it read; and its fetch then takes
\* up every window with a text message newer than the watermark, the one
\* of a failed earlier attempt included.
FailureKeepsWatermark ==
    /\ [][\A t \in Tasks :
            (pc[t] \in BeforeWrite /\ pc'[t] = "record_failure") =>
                UNCHANGED <<chats, suggestions>>
         ]_vars
    /\ [][\A t \in Tasks :
            (pc[t] = "record_failure" /\ Moved(t)) =>
                /\ UNCHANGED chats
                /\ \A c \in Threads : RowsAfter(c, "pending") = RowsOf(c, "pending")
                /\ \/ UNCHANGED suggestions
                   \/ /\ Len(suggestions') = Len(suggestions) + 1
                      /\ SubSeq(suggestions', 1, Len(suggestions)) = suggestions
                      /\ RowsAfter(Cur(t).id, "failed")
                            = RowsOf(Cur(t).id, "failed") \cup {Len(suggestions')}
         ]_vars
    /\ [](\A t \in Tasks : \A i \in 1..Len(outcome[t]) :
            outcome[t][i] \in {"failed", "failed_unrecorded"} =>
                Untouched(t, i, {"set_last_seen"}))
    /\ [][\A t \in Tasks :
            (pc[t] = "quota" /\ Moved(t) /\ pc'[t] # "record_failure") =>
                (pc'[t] \in {"cooldown", "fetch"}
                    <=> Cardinality(RowsOf(Cur(t).id, "pending"))
                            < cyc[t].settings.max_suggestions_per_chat)
         ]_vars
    /\ [][\A t \in Tasks :
            (/\ pc[t] = "fetch" /\ Moved(t) /\ pc'[t] # "record_failure"
             /\ NewText(Cur(t).id, cyc[t].settings.k_messages)) =>
                /\ pc'[t] \in {"backend", "wm_self"}
                /\ cyc'[t].source = TextsOf(Cur(t).id, cyc[t].settings.k_messages)
         ]_vars

\* With cooldown_minutes = 0, two cycles have failed on the same window
\* of thread 1 at the backend call: two failed Suggestions, no watermark,
\* and a third cycle is at its backend call for the thread.
FailureKeepsWatermarkWitness ==
    /\ Len(suggestions) = 2
    /\ \A sid \in 1..2 :
          /\ suggestions[sid].chat = 1 /\ suggestions[sid].status = "failed"
          /\ suggestions[sid].error = "backend error"
    /\ Watermark(1) = None
    /\ settings.cooldown_minutes = 0
    /\ \E t \in Tasks : pc[t] = "backend" /\ Cur(t).id = 1

\* The task is going through a thread of its snapshot.
AtThread(t) ==
    pc[t] \in {"quota", "cooldown", "fetch", "backend", "insert", "wm", "wm_self",
               "record_failure"}

\* The cycles that are waiting for the completion backend.
BackendRequests == {t \in Tasks : pc[t] = "backend"}

\* C34: sequential processing.  A cycle goes through the threads of its
\* snapshot by position, from the first: while it is at the thread of
\* position idx, each earlier thread has exactly one outcome on record and
\* no later thread has had any operation made for it; a thread ends by the
\* step that takes the cycle to the next position, or out of the loop
\* after the last one, with the snapshot unchanged; a cycle that comes out
\* of the loop has one outcome for every thread of the snapshot.  Over the
\* loop and the run-now tasks at most one cycle is waiting for the
\* completion backend at any moment.
SequentialProcessing ==
    /\ [](Cardinality(BackendRequests) <= 1)
    /\ [](\A t \in Tasks :
            AtThread(t) =>
                /\ cyc[t].idx \in 1..Len(cyc[t].chats)
                /\ Len(outcome[t]) = cyc[t].idx - 1
                /\ \A i \in 1..Len(cyc[t].chats) :
                      i > cyc[t].idx => Untouched(t, i, ThreadWork \cup {"count_pending"}))
    /\ [](\A t \in Tasks :
            (pc[t] = "release" /\ cyc[t].err = "") =>
                Len(outcome[t]) = Len(cyc[t].chats))
    /\ [](\A t \in Tasks : \A i, j \in 1..Len(cyc[t].chats) :
            cyc[t].chats[i].id = cyc[t].chats[j].id => i = j)
    /\ [][\A t \in Tasks :
            (AtThread(t) /\ Moved(t)) =>
                /\ cyc'[t].chats = cyc[t].chats
                /\ \/ AtThread(t)' /\ cyc'[t].idx = cyc[t].idx
                         /\ outcome'[t] = outcome[t]
                   \/ /\ Len(outcome'[t]) = Len(outcome[t]) + 1
                      /\ IF cyc[t].idx < Len(cyc[t].chats)
                         THEN pc'[t] = "quota" /\ cyc'[t].idx = cyc[t].idx + 1
                         ELSE pc'[t] = "release" /\ cyc'[t].idx = cyc[t].idx
         ]_vars

\* A cycle is waiting for the backend's reply for the second thread of its
\* snapshot of two while another run_once() waits for the lock.
SequentialProcessingWitness ==
    \E t, u \in Tasks :
        /\ pc[t] = "backend" /\ cyc[t].idx = 2 /\ Len(cyc[t].chats) = 2
        /\ Len(outcome[t]) = 1
        /\ pc[u] = "waiting"

\* The task is between taking the lock and leaving `async with`.
InCycle(t) == InBody(t) \/ pc[t] = "release"

\* The loop task has been cancelled and the CancelledError is yet to reach
\* it, in its cycle or in its wait for the lock.
CancelPending(where) == pc[LoopTask] = "cancelled" /\ sched.at \in where

BodyPcs ==
    {"settings", "chats", "quota", "cooldown", "fetch", "backend", "insert", "wm",
     "wm_self", "record_failure", "release"}

\* C36: the lock is held for the whole cycle and released when the cycle
\* ends.  A task in its cycle holds the lock; the lock is held only by a
\* task in its cycle (the loop task cancelled in its cycle, until the
\* cancellation reaches it, included); the step by which a cycle ends,
\* returning, raising or being cancelled, leaves the lock free, and the
\* cancellation of the waiting loop task takes it out of the queue; with
\* no task in a cycle and none waiting the lock is free and nobody is
\* queued; and under a fair event loop every run_once() that waits for
\* the lock gets it, and every holder lets go of it.
LockAlwaysReleased ==
    /\ [](\A t \in Tasks : InCycle(t) => lock_owner = t)
    /\ [](\A t \in Tasks : lock_owner = t =>
              InCycle(t) \/ (t = LoopTask /\ CancelPending(BodyPcs)))
    /\ []((\A t \in Tasks : ~InCycle(t) /\ pc[t] \notin {"waiting", "cancelled"}) =>
              lock_owner = None /\ lock_waiters = <<>>)
    /\ [][\A t \in Tasks :
            (lock_owner = t /\ ~InCycle(t)' /\ pc'[t] # "cancelled") =>
                lock_owner' = None]_vars
    /\ [][(pc[LoopTask] = "cancelled" /\ pc'[LoopTask] # "cancelled") =>
            /\ lock_owner' # LoopTask
            /\ \A i \in 1..Len(lock_waiters') : lock_waiters'[i] # LoopTask]_vars
    /\ \A t \in Tasks : (pc[t] = "waiting") ~> (pc[t] # "waiting")
    /\ \A t \in Tasks : (lock_owner = t) ~> (lock_owner # t)

\* stop() cancelled the loop task in its cycle, at the backend call; the
\* stop() has returned and a run-now task is in a cycle of its own.
LockAlwaysReleasedWitness ==
    /\ sched.stopped /\ sched.at = "backend" /\ pc[LoopTask] = "none"
    /\ \E t \in ManualTasks : InBody(t) /\ lock_owner = t

\* The messages the connector has sent with the text of Suggestion sid, in
\* its thread.
Deliveries(sid) ==
    LET c == suggestions[sid].chat IN
    {i \in 1..Len(inbox[c]) :
        inbox[c][i].from_me /\ inbox[c][i].text = suggestions[sid].suggested_text}

\* C37 as stated: at-most-once delivery.  Whatever send and send-as-reply
\* requests are made for a Suggestion and however they interleave, the
\* connector sends its text once at most.
DeliveredOnce ==
    \A sid \in 1..Len(suggestions) : Cardinality(Deliveries(sid)) <= 1

====
